---------------------------- MODULE Spec2Model ----------------------------
(***************************************************************************)
(* A model of the 3D LUT operator data of OpenColorIO                      *)
(* (src/OpenColorIO/ops/Lut3D/Lut3DOpData.cpp): the Lut3DOpData objects    *)
(* held through shared pointers, their mutators, inverse(), Compose() and  *)
(* MakeFastLut3DFromInverse().                                             *)
(*                                                                         *)
(* Sample values are IEEE-754 binary32 numbers, modelled exactly for the   *)
(* finite non-negative values the model uses: a float is <<m, e>> and      *)
(* stands for m * 2^e, with m = 0 (and e = 0) for zero and                 *)
(* 2^23 <= m < 2^24 otherwise.  Products and quotients are rounded to      *)
(* nearest, ties to even, as the hardware does.                            *)
(*                                                                         *)
(* An array of edge length L holds 3*L^3 floats.  The model keeps the      *)
(* floats of the grid nodes whose three coordinates are in {0, 1, L-1},    *)
(* at their real flat indices: that is the whole array for L = 2 and       *)
(* L = 3, and the corner region of the larger grids.  Every array          *)
(* operation of this file acts on each float on its own (fill, scale,      *)
(* copy, compare), so the kept floats evolve as they do in the program.    *)
(***************************************************************************)
EXTENDS Integers, Sequences, FiniteSets, TLC

VARIABLES
    heap,   \* object id -> the Lut3DOpData living there, or NoLut
    ptr,    \* the caller's shared pointers: handle -> object id, or 0 (null)
    last,   \* the record of the last call: arguments, state before, outcome
    nops,   \* number of calls made so far
    frames, \* thread -> the call it is in: its position and its locals
    mutex   \* object id -> the thread that holds the object's m_mutex

vars == <<heap, ptr, last, nops, frames, mutex>>

-----------------------------------------------------------------------------
(* Bounds of the model *)

MaxOps == 3     \* calls per behaviour
MaxObjs == 4    \* Lut3DOpData objects alive at once, the one being made included

HandleSeq == <<"a", "b", "c">>
Handles == {HandleSeq[i] : i \in DOMAIN HandleSeq}
ObjIds == 1..MaxObjs

-----------------------------------------------------------------------------
(* binary32 arithmetic *)

TwoTo12 == 2^12
TwoTo23 == 2^23
TwoTo24 == 2^24

FZero == <<0, 0>>

RECURSIVE Normalize(_, _)
Normalize(m, e) ==
    IF m = 0 THEN FZero
    ELSE IF m < TwoTo23 THEN Normalize(2 * m, e - 1)
    ELSE <<m, e>>

\* (float) n for an integer 0 <= n < 2^24: exact.
FromInt(n) == Normalize(n, 0)

\* The mantissa m (below 2^25) of a result with what was cut off compared to a
\* half unit in the last place: cmp is -1 (below half), 0 (a tie), 1 (above).
RoundNearestEven(m, cmp, e) ==
    LET up == cmp > 0 \/ (cmp = 0 /\ m % 2 = 1)
        r == IF up THEN m + 1 ELSE m
    IN IF r = TwoTo24 THEN <<TwoTo23, e + 1>> ELSE <<r, e>>

Cmp(x, y) == IF x < y THEN -1 ELSE IF x = y THEN 0 ELSE 1

\* a * b, rounded.  The 48-bit product of the mantissas is formed from 12-bit
\* halves as Hi * 2^24 + Lo.
FMul(a, b) ==
    IF a[1] = 0 \/ b[1] = 0 THEN FZero
    ELSE
    LET a1 == a[1] \div TwoTo12   a0 == a[1] % TwoTo12
        b1 == b[1] \div TwoTo12   b0 == b[1] % TwoTo12
        mid == a1 * b0 + a0 * b1
        low == (mid % TwoTo12) * TwoTo12 + a0 * b0
        Hi == a1 * b1 + (mid \div TwoTo12) + (low \div TwoTo24)
        Lo == low % TwoTo24
        e == a[2] + b[2]
    IN IF Hi >= TwoTo23
       THEN RoundNearestEven(Hi, Cmp(Lo, TwoTo23), e + 24)
       ELSE RoundNearestEven(2 * Hi + (Lo \div TwoTo23),
                             Cmp(Lo % TwoTo23, 2^22), e + 23)

\* floor(r * 2^bits / d) and the remainder, for r < d: <<quotient, remainder>>.
RECURSIVE LongDiv(_, _, _, _)
LongDiv(r, d, bits, q) ==
    IF bits = 0 THEN <<q, r>>
    ELSE IF 2 * r >= d THEN LongDiv(2 * r - d, d, bits - 1, 2 * q + 1)
    ELSE LongDiv(2 * r, d, bits - 1, 2 * q)

\* a / b, rounded, for b # 0.
FDiv(a, b) ==
    IF a[1] = 0 THEN FZero
    ELSE
    LET bits == IF a[1] >= b[1] THEN 23 ELSE 24
        qr == LongDiv(a[1] % b[1], b[1], bits, a[1] \div b[1])
    IN RoundNearestEven(qr[1], Cmp(2 * qr[2], b[1]), a[2] - b[2] - bits)

FOne == FromInt(1)


-----------------------------------------------------------------------------
(* Enumerations and bit depths *)

BitDepths == {"UINT8", "UINT10", "UINT12", "UINT16", "F16", "F32"}
Interpolations ==
    {"default", "linear", "nearest", "tetrahedral", "cubic", "best", "unknown"}
Directions == {"forward", "inverse"}
InversionQualities == {"fast", "exact", "best", "default"}

\* The largest value of a bit depth; the float depths are normalized to 1.
GetBitDepthMaxValue(bd) ==
    CASE bd = "UINT8" -> 255
      [] bd = "UINT10" -> 1023
      [] bd = "UINT12" -> 4095
      [] bd = "UINT16" -> 65535
      [] bd = "F16" -> 1
      [] bd = "F32" -> 1

maxSupportedLength == 129

\* A bug: a coarser grid.
GridSize_Coarser == 48 - 16

\* The grid MakeFastLut3DFromInverse samples the inverse on.
GridSize == 48

-----------------------------------------------------------------------------
(* Inputs the callers draw from *)

GridSizes == {2, 3, 49}
\* <<input depth, output depth, interpolation, grid size>> of the full constructor
FullInputs ==
    {<<"UINT8", "UINT10", "linear", 2>>,
     <<"UINT10", "UINT8", "tetrahedral", 3>>,
     <<"F16", "F32", "best", 2>>,
     <<"F32", "F16", "nearest", 3>>,
     <<"UINT10", "UINT12", "cubic", 3>>}
BitDepthInputs == {"UINT8", "UINT16", "F32"}
InversionQualityInputs == {"exact", "default"}
\* <<index, value>> of a write into the array: [0] = 20.f and [1] = 0.1f
WriteInputs == {<<0, FromInt(20)>>, <<1, <<13421773, -27>>>>}

EmptyMetadata == [name |-> <<>>, children |-> <<>>]
MetadataInputs == {[name |-> <<"lut1">>, children |-> <<"description of lut1">>]}

-----------------------------------------------------------------------------
(* Lut3DArray *)

\* The coordinates, and the flat indices, of the floats the model keeps.
Coords(length) == {0, 1, length - 1} \cap (0..(length - 1))
Indices(length) ==
    {3 * ((i * length + j) * length + k) + c :
        i \in Coords(length), j \in Coords(length), k \in Coords(length),
        c \in 0..2}

\* Array::resize: the length is set and the storage is given its new size.
resize(array, length, numColorComponents) ==
    [length |-> length,
     numColorComponents |-> numColorComponents,
     values |-> [x \in Indices(length) |-> FZero]]

\* A bug: the longest supported length is refused too.
resizeThrows_AtLimit(length) == length >= maxSupportedLength

\* Whether Lut3DArray::resize refuses the length.
resizeThrows(length) == length > maxSupportedLength

ResizeWhat == "LUT 3D: Grid size must not be greater than '129'."

\* A bug: the red coordinate changes fastest.
rampCoord_RedFastest(length, x) ==
    LET idx == x \div 3
    IN CASE x % 3 = 0 -> idx % length
         [] x % 3 = 1 -> (idx \div length) % length
         [] x % 3 = 2 -> ((idx \div length) \div length) % length

\* The grid coordinate fill() and isIdentity() scale at flat position x.
rampCoord(length, x) ==
    LET idx == x \div 3
    IN CASE x % 3 = 0 -> ((idx \div length) \div length) % length
         [] x % 3 = 1 -> (idx \div length) % length
         [] x % 3 = 2 -> idx % length

fill(array, outBitDepth) ==
    LET length == array.length
        stepValue == FDiv(FromInt(GetBitDepthMaxValue(outBitDepth)),
                          FromInt(length - 1))
    IN [array EXCEPT !.values =
          [x \in DOMAIN array.values |->
              FMul(FromInt(rampCoord(length, x)), stepValue)]]

\* Lut3DArray::Lut3DArray, for a length resize accepts.
newLut3DArray(length, outBitDepth) ==
    fill(resize([length |-> 0, numColorComponents |-> 3, values |-> <<>>],
                length, 3),
         outBitDepth)

\* The arrays the constructor makes, computed once for the lengths in use.
ArrayLengths ==
    GridSizes \cup {f[4] : f \in FullInputs} \cup {2, GridSize}
        \cup {5, maxSupportedLength} \cup {4, 8, 9, 17, 33, 65, 128}
NewLut3DArrays ==
    [length \in ArrayLengths, bd \in BitDepths |-> newLut3DArray(length, bd)]
Lut3DArray(length, outBitDepth) == NewLut3DArrays[length, outBitDepth]

scale(array, scaleFactor) ==
    IF scaleFactor # FOne
    THEN [array EXCEPT !.values =
            [x \in DOMAIN array.values |-> FMul(array.values[x], scaleFactor)]]
    ELSE array

-----------------------------------------------------------------------------
(* Lut3DOpData *)

NoLut == [free |-> TRUE]

Lut3DOpData(gridSize) ==
    [inBitDepth |-> "F32", outBitDepth |-> "F32",
     metadata |-> EmptyMetadata,
     interpolation |-> "default",
     array |-> Lut3DArray(gridSize, "F32"),
     direction |-> "forward",
     invQuality |-> "fast",
     cacheID |-> <<>>]

Lut3DOpDataDir(gridSize, dir) ==
    [inBitDepth |-> "F32", outBitDepth |-> "F32",
     metadata |-> EmptyMetadata,
     interpolation |-> "default",
     array |-> Lut3DArray(gridSize, "F32"),
     direction |-> dir,
     invQuality |-> "fast",
     cacheID |-> <<>>]

Lut3DOpDataFull(inBitDepth, outBitDepth, metadata, interpolation, gridSize) ==
    [inBitDepth |-> inBitDepth, outBitDepth |-> outBitDepth,
     metadata |-> metadata,
     interpolation |-> interpolation,
     array |-> Lut3DArray(gridSize, outBitDepth),
     direction |-> "forward",
     invQuality |-> "fast",
     cacheID |-> <<>>]

setInversionQuality(lut, style) == [lut EXCEPT !.invQuality = style]

\* OpData::setInputBitDepth and OpData::setOutputBitDepth: the tag alone.
OpData_setInputBitDepth(lut, in) == [lut EXCEPT !.inBitDepth = in]
OpData_setOutputBitDepth(lut, out) == [lut EXCEPT !.outBitDepth = out]

\* A bug: max_old_depth / max_new_depth.
scaleFactorOf_Inverted(new, old) ==
    FDiv(FromInt(GetBitDepthMaxValue(old)), FromInt(GetBitDepthMaxValue(new)))

\* (float) max_new_depth / (float) max_old_depth
scaleFactorOf(new, old) ==
    FDiv(FromInt(GetBitDepthMaxValue(new)), FromInt(GetBitDepthMaxValue(old)))

setOutputBitDepth(lut, out) ==
    LET scaled == IF lut.direction = "forward"
                  THEN [lut EXCEPT !.array =
                          scale(lut.array, scaleFactorOf(out, lut.outBitDepth))]
                  ELSE lut
    IN OpData_setOutputBitDepth(scaled, out)

\* A bug: the array is scaled whatever the direction.
setInputBitDepth_AlwaysScales(lut, in) ==
    OpData_setInputBitDepth(
        [lut EXCEPT !.array = scale(lut.array, scaleFactorOf(in, lut.inBitDepth))],
        in)

setInputBitDepth(lut, in) ==
    LET scaled == IF lut.direction = "inverse"
                  THEN [lut EXCEPT !.array =
                          scale(lut.array, scaleFactorOf(in, lut.inBitDepth))]
                  ELSE lut
    IN OpData_setInputBitDepth(scaled, in)

\* A bug: the copy has no cache ID.
clone_WithoutCacheID(lut) == [lut EXCEPT !.cacheID = <<>>]

\* The copy constructor behind std::make_shared<Lut3DOpData>(*this).
clone(lut) == lut

\* A bug: the depths are swapped through the rescaling setters.
inverse_Rescaling(lut) ==
    LET flipped == [clone(lut) EXCEPT !.direction =
                      IF lut.direction = "forward" THEN "inverse" ELSE "forward"]
    IN setOutputBitDepth(setInputBitDepth(flipped, lut.outBitDepth),
                         lut.inBitDepth)

\* A bug: the direction is set to inverse, never back to forward.
inverse_NeverForward(lut) ==
    OpData_setOutputBitDepth(
        OpData_setInputBitDepth([clone(lut) EXCEPT !.direction = "inverse"],
                                lut.outBitDepth),
        lut.inBitDepth)

inverse(lut) ==
    LET invLut == clone(lut)
        flipped == [invLut EXCEPT !.direction =
                      IF lut.direction = "forward" THEN "inverse" ELSE "forward"]
        in == lut.inBitDepth
    IN OpData_setOutputBitDepth(
           OpData_setInputBitDepth(flipped, lut.outBitDepth), in)

-----------------------------------------------------------------------------
(* Compose and MakeFastLut3DFromInverse *)

\* FormatMetadataImpl::combine: the names are joined (the parts of a name are
\* printed with " + " between them) and the children follow one another.
combine(a, b) ==
    [name |-> a.name \o b.name, children |-> a.children \o b.children]

\* The ops CreateScaleOp and CreateLut3DOp append.  A scale is kept as the
\* fraction num/den applied to R, G and B (alpha is scaled by 1).
ScaleOp(num, den) ==
    [type |-> "Scale", num |-> num, den |-> den, direction |-> "forward"]
Lut3DOp(lut) ==
    [type |-> "Lut3D", data |-> lut, direction |-> "forward"]

\* What EvalTransform writes for a buffer of samples.  The renderers are not
\* part of this file: any buffer of the size of the input is admitted, and the
\* model draws the constant buffers of 0.f and 0.5f.
EvalSamples == {FZero, <<TwoTo23, -24>>}
EvalTransform(inValues, ops, v) == [x \in DOMAIN inValues |-> v]

ComposeWhat == "A bit depth mismatch forbids the composition of LUTs"

\* A bug: the largest values are compared, not the depths.
ComposeThrows_ByMaxValue(A, B) ==
    GetBitDepthMaxValue(A.outBitDepth) # GetBitDepthMaxValue(B.inBitDepth)

ComposeThrows(A, B) == A.outBitDepth # B.inBitDepth

\* A bug: the comparison is turned round, so the coarser grid is sampled.
ComposeUsesA_Coarser(n, min_sz) == n <= min_sz

\* Whether A's own grid is the domain (the range of the first LUT becomes the
\* domain to interpolate in the second).
ComposeUsesA(n, min_sz) == n >= min_sz

ComposeDomain(A, B) ==
    IF ComposeUsesA(A.array.length, B.array.length)
    THEN A
    ELSE Lut3DOpDataFull(A.inBitDepth, "F32", A.metadata, A.interpolation,
                         B.array.length)

\* A bug: the scale by B's largest value is applied before B.
ComposeOps_ScaleBeforeB(A, B) ==
    LET clonedB == clone(B)
        first == IF ComposeUsesA(A.array.length, B.array.length)
                 THEN ScaleOp(1, GetBitDepthMaxValue(A.outBitDepth))
                 ELSE Lut3DOp(A)
    IN <<first, ScaleOp(GetBitDepthMaxValue(B.outBitDepth), 1), Lut3DOp(clonedB)>>

ComposeOps(A, B) ==
    LET clonedB == clone(B)
        first == IF ComposeUsesA(A.array.length, B.array.length)
                 THEN ScaleOp(1, GetBitDepthMaxValue(A.outBitDepth))
                 ELSE Lut3DOp(A)
    IN <<first, Lut3DOp(clonedB), ScaleOp(GetBitDepthMaxValue(B.outBitDepth), 1)>>

\* A bug: the interpolation is taken from B.
ComposeNewA_InterpolationOfB(A, B) ==
    Lut3DOpDataFull(A.inBitDepth, B.outBitDepth,
                    combine(A.metadata, B.metadata), B.interpolation, 2)

\* A bug: the output depth is taken from A.
ComposeNewA_OutputDepthOfA(A, B) ==
    Lut3DOpDataFull(A.inBitDepth, A.outBitDepth,
                    combine(A.metadata, B.metadata), A.interpolation, 2)

\* A bug: the inversion quality of the old A is carried over.
ComposeNewA_KeepsInversionQuality(A, B) ==
    setInversionQuality(
        Lut3DOpDataFull(A.inBitDepth, B.outBitDepth,
                        combine(A.metadata, B.metadata), A.interpolation, 2),
        A.invQuality)

\* The LUT Compose binds A to, before its array is resized and written.
ComposeNewA(A, B) ==
    Lut3DOpDataFull(A.inBitDepth, B.outBitDepth,
                    combine(A.metadata, B.metadata), A.interpolation, 2)

\* Compose past its bit-depth test: the new A, out being what EvalTransform
\* wrote, with the op list and the domain that were used.
ComposeResult(A, B, v) ==
    LET domain == ComposeDomain(A, B)
        gridSize == domain.array.length
        ops == ComposeOps(A, B)
        newA == ComposeNewA(A, B)
    IN [A |-> [newA EXCEPT !.array =
                  [resize(newA.array, gridSize, 3) EXCEPT !.values =
                      EvalTransform(domain.array.values, ops, v)]],
        ops |-> ops,
        domain |-> domain]

MakeFastWhat == "MakeFastLut3DFromInverse expects an inverse LUT"

\* A bug: the test of the direction is turned round.
MakeFastThrows_Inverted(lut) == lut.direction # "forward"

MakeFastThrows(lut) == lut.direction # "inverse"

\* LutStyleGuard: the style is EXACT while the guard lives, and is put back
\* when it goes.
LutStyleGuardEnter(lut) == setInversionQuality(lut, "exact")
LutStyleGuardExit(lut, saved) == setInversionQuality(lut, saved)

\* The domain MakeFastLut3DFromInverse hands to Compose.
MakeFastDomain(lut) ==
    setOutputBitDepth(setInputBitDepth(Lut3DOpData(GridSize), lut.inBitDepth),
                      lut.inBitDepth)

-----------------------------------------------------------------------------
(* The heap of shared objects *)

Live(h) == {id \in ObjIds : h[id] # NoLut}
FreeIds(h) == ObjIds \ Live(h)
NewId(h) == CHOOSE id \in FreeIds(h) : \A other \in FreeIds(h) : id <= other
NullHandles(p) == {x \in Handles : p[x] = 0}
\* The variable a caller declares next.
NewHandle(p) ==
    HandleSeq[CHOOSE i \in DOMAIN HandleSeq :
                /\ p[HandleSeq[i]] = 0
                /\ \A j \in 1..(i - 1) : p[HandleSeq[j]] # 0]

\* A shared object dies with its last pointer.
Collect(h, p) ==
    [id \in ObjIds |-> IF \E x \in Handles : p[x] = id THEN h[id] ELSE NoLut]

NoArgs == [none |-> TRUE]

\* The threads of the callers, and a thread that is in no call.
Threads == {"t1", "t2"}
NoThread == "none"
Idle == [pc |-> "idle"]

\* No thread is in a call and no mutex is held.
NoCallRunning ==
    /\ frames = [t \in Threads |-> Idle]
    /\ mutex = [id \in ObjIds |-> NoThread]

\* How a call ended: whether it threw and what, the object it made or changed,
\* the steps it went through, the op list and sampling domain of a Compose, and
\* the value a const member function returned.
Returned(ret) ==
    [threw |-> FALSE, what |-> "", ret |-> ret, trace |-> <<>>, ops |-> <<>>,
     domain |-> NoLut, value |-> "void"]
Threw(what) ==
    [threw |-> TRUE, what |-> what, ret |-> 0, trace |-> <<>>, ops |-> <<>>,
     domain |-> NoLut, value |-> "void"]

Call(op, args, outcome) ==
    [op |-> op, args |-> args, pre |-> heap, prePtr |-> ptr,
     threw |-> outcome.threw, what |-> outcome.what, ret |-> outcome.ret,
     trace |-> outcome.trace, ops |-> outcome.ops, domain |-> outcome.domain,
     value |-> outcome.value]

Init ==
    /\ heap = [id \in ObjIds |-> NoLut]
    /\ ptr = [x \in Handles |-> 0]
    /\ last = [op |-> "none", args |-> NoArgs,
               pre |-> [id \in ObjIds |-> NoLut], prePtr |-> [x \in Handles |-> 0],
               threw |-> FALSE, what |-> "", ret |-> 0, trace |-> <<>>,
               ops |-> <<>>, domain |-> NoLut, value |-> "void"]
    /\ nops = 0
    /\ NoCallRunning

CanCall == nops < MaxOps
CanAllocate == CanCall /\ NullHandles(ptr) # {} /\ FreeIds(heap) # {}

\* A new object, held by the caller's next variable.
Allocate(op, args, lut) ==
    LET id == NewId(heap) IN
    /\ heap' = [heap EXCEPT ![id] = lut]
    /\ ptr' = [ptr EXCEPT ![NewHandle(ptr)] = id]
    /\ last' = Call(op, args, Returned(id))
    /\ nops' = nops + 1 /\ UNCHANGED <<frames, mutex>>

\* A mutator of the object x points to.
Mutate(op, args, x, lut) ==
    /\ heap' = [heap EXCEPT ![ptr[x]] = lut]
    /\ ptr' = ptr
    /\ last' = Call(op, args, Returned(ptr[x]))
    /\ nops' = nops + 1 /\ UNCHANGED <<frames, mutex>>

\* A constructor whose Lut3DArray member threw: no object is made.
NotConstructed(op, args, what) ==
    /\ UNCHANGED <<heap, ptr>>
    /\ last' = Call(op, args, Threw(what))
    /\ nops' = nops + 1 /\ UNCHANGED <<frames, mutex>>

Construct(gridSize) ==
    /\ CanAllocate
    /\ IF resizeThrows(gridSize)
       THEN NotConstructed("Lut3DOpData", [gridSize |-> gridSize], ResizeWhat)
       ELSE Allocate("Lut3DOpData", [gridSize |-> gridSize],
                     Lut3DOpData(gridSize))

ConstructDir(gridSize, dir) ==
    /\ CanAllocate
    /\ IF resizeThrows(gridSize)
       THEN NotConstructed("Lut3DOpDataDir",
                           [gridSize |-> gridSize, dir |-> dir], ResizeWhat)
       ELSE Allocate("Lut3DOpDataDir", [gridSize |-> gridSize, dir |-> dir],
                     Lut3DOpDataDir(gridSize, dir))

ConstructFull(in, out, md, interp, gridSize) ==
    /\ CanAllocate
    /\ LET args == [inBitDepth |-> in, outBitDepth |-> out, metadata |-> md,
                    interpolation |-> interp, gridSize |-> gridSize]
       IN IF resizeThrows(gridSize)
          THEN NotConstructed("Lut3DOpDataFull", args, ResizeWhat)
          ELSE Allocate("Lut3DOpDataFull", args,
                        Lut3DOpDataFull(in, out, md, interp, gridSize))

SetInversionQuality(x, style) ==
    /\ CanCall /\ ptr[x] # 0
    /\ Mutate("setInversionQuality", [x |-> x, style |-> style], x,
              setInversionQuality(heap[ptr[x]], style))

SetInputBitDepth(x, in) ==
    /\ CanCall /\ ptr[x] # 0
    /\ Mutate("setInputBitDepth", [x |-> x, in |-> in], x,
              setInputBitDepth(heap[ptr[x]], in))

SetOutputBitDepth(x, out) ==
    /\ CanCall /\ ptr[x] # 0
    /\ Mutate("setOutputBitDepth", [x |-> x, out |-> out], x,
              setOutputBitDepth(heap[ptr[x]], out))

\* getArray()[index] = value
SetArrayValue(x, index, value) ==
    /\ CanCall /\ ptr[x] # 0
    /\ index \in DOMAIN heap[ptr[x]].array.values
    /\ Mutate("setArrayValue", [x |-> x, index |-> index, value |-> value], x,
              [heap[ptr[x]] EXCEPT !.array.values[index] = value])

Inverse(x) ==
    /\ CanAllocate /\ ptr[x] # 0
    /\ Allocate("inverse", [x |-> x], inverse(heap[ptr[x]]))

\* Compose(A, B) with A the caller's pointer x and B the pointer y.  On success
\* x is bound to a new object and the one it held dies with its last pointer.
Compose(x, y, v) ==
    /\ CanCall /\ ptr[x] # 0 /\ ptr[y] # 0
    /\ LET A == heap[ptr[x]]
           B == heap[ptr[y]]
           args == [A |-> x, B |-> y]
       IN IF ComposeThrows(A, B)
          THEN /\ UNCHANGED <<heap, ptr>>
               /\ last' = Call("Compose", args, Threw(ComposeWhat))
          ELSE /\ FreeIds(heap) # {}
               /\ LET id == NewId(heap)
                      r == ComposeResult(A, B, v)
                      p == [ptr EXCEPT ![x] = id]
                  IN /\ ptr' = p
                     /\ heap' = Collect([heap EXCEPT ![id] = r.A], p)
                     /\ last' = Call("Compose", args,
                                     [Returned(id) EXCEPT !.ops = r.ops,
                                                          !.domain = r.domain])
    /\ nops' = nops + 1 /\ UNCHANGED <<frames, mutex>>

\* MakeFastLut3DFromInverse(lut) with lut the caller's pointer x; the LUT it
\* returns is held by the caller's next variable.
MakeFastLut3DFromInverse(x, v) ==
    /\ CanCall /\ ptr[x] # 0
    /\ LET lut == heap[ptr[x]]
           args == [lut |-> x]
       IN IF MakeFastThrows(lut)
          THEN /\ UNCHANGED <<heap, ptr>>
               /\ last' = Call("MakeFastLut3DFromInverse", args,
                               Threw(MakeFastWhat))
          ELSE LET guarded == LutStyleGuardEnter(lut)
                   newDomain == MakeFastDomain(guarded)
               IN IF ComposeThrows(newDomain, guarded)
                  THEN /\ heap' = [heap EXCEPT ![ptr[x]] =
                                     LutStyleGuardExit(guarded, lut.invQuality)]
                       /\ ptr' = ptr
                       /\ last' = Call("MakeFastLut3DFromInverse", args,
                                       [Threw(ComposeWhat) EXCEPT !.trace =
                                           <<"guard", "newDomain", "Compose",
                                             "unguard">>])
                  ELSE /\ CanAllocate
                       /\ LET id == NewId(heap)
                              r == ComposeResult(newDomain, guarded, v)
                          IN /\ heap' = [heap EXCEPT
                                           ![ptr[x]] = LutStyleGuardExit(
                                                          guarded, lut.invQuality),
                                           ![id] = r.A]
                             /\ ptr' = [ptr EXCEPT ![NewHandle(ptr)] = id]
                             /\ last' = Call("MakeFastLut3DFromInverse", args,
                                             [Returned(id) EXCEPT
                                                !.trace = <<"guard", "newDomain",
                                                            "Compose", "unguard">>,
                                                !.ops = r.ops,
                                                !.domain = r.domain])
    /\ nops' = nops + 1 /\ UNCHANGED <<frames, mutex>>

Next ==
    \/ \E g \in GridSizes : Construct(g)
    \/ \E g \in GridSizes, d \in Directions : ConstructDir(g, d)
    \/ \E f \in FullInputs, md \in MetadataInputs :
            ConstructFull(f[1], f[2], md, f[3], f[4])
    \/ \E x \in Handles, q \in InversionQualityInputs : SetInversionQuality(x, q)
    \/ \E x \in Handles, d \in BitDepthInputs : SetInputBitDepth(x, d)
    \/ \E x \in Handles, d \in BitDepthInputs : SetOutputBitDepth(x, d)
    \/ \E x \in Handles, w \in WriteInputs : SetArrayValue(x, w[1], w[2])
    \/ \E x \in Handles : Inverse(x)
    \/ \E x \in Handles, y \in Handles, v \in EvalSamples : Compose(x, y, v)
    \/ \E x \in Handles, v \in EvalSamples : MakeFastLut3DFromInverse(x, v)

Spec == Init /\ [][Next]_vars

-----------------------------------------------------------------------------
(* operator== *)

\* Array::operator==: the dimensions and every float.
ArrayEquals(a, b) ==
    /\ a.length = b.length
    /\ a.numColorComponents = b.numColorComponents
    /\ a.values = b.values

\* OpData::operator==: the bit depths (both are Lut3DOpData here).
OpDataEquals(a, b) ==
    a.inBitDepth = b.inBitDepth /\ a.outBitDepth = b.outBitDepth

haveEqualBasics(a, b) == ArrayEquals(a.array, b.array)

\* A bug: the interpolation is left out of the comparison.
LutEquals_IgnoringInterpolation(a, b) ==
    IF ~OpDataEquals(a, b) THEN FALSE
    ELSE IF a.direction # b.direction
    THEN FALSE
    ELSE haveEqualBasics(a, b)

\* Lut3DOpData::operator== on two objects that are not the same object.
LutEquals(a, b) ==
    IF ~OpDataEquals(a, b) THEN FALSE
    ELSE IF a.direction # b.direction \/ a.interpolation # b.interpolation
    THEN FALSE
    ELSE haveEqualBasics(a, b)

-----------------------------------------------------------------------------
(* The claims.  The LUT a pointer held before the last call: *)

Before(x) == last.pre[last.prePtr[x]]
Max(m, n) == IF m >= n THEN m ELSE n
Composed == last.op = "Compose" /\ ~last.threw
MadeFast == last.op = "MakeFastLut3DFromInverse" /\ ~last.threw

\* C1: Compose(A, B) fails iff A's output bit depth differs from B's input bit
\* depth, with the message "A bit depth mismatch forbids the composition of
\* LUTs"; when the two are equal it completes.
C1_ComposeFailsIffMismatch ==
    last.op = "Compose" =>
        LET A == Before(last.args.A)
            B == Before(last.args.B)
        IN /\ last.threw <=> (A.outBitDepth # B.inBitDepth)
           /\ last.threw =>
                last.what = "A bit depth mismatch forbids the composition of LUTs"
           /\ ~last.threw => ptr[last.args.A] = last.ret /\ heap[last.ret] # NoLut

\* A Compose that failed on two depths of the same largest value (F16 and F32).
C1_Witness ==
    /\ last.op = "Compose" /\ last.threw
    /\ Before(last.args.A).outBitDepth = "F16"
    /\ Before(last.args.B).inBitDepth = "F32"

\* C2: after a successful Compose(A, B) the edge length of the new A is the
\* larger of the two edge lengths: the old A's when it is >= B's, B's otherwise.
C2_ComposeLengthIsMax ==
    Composed =>
        LET n == Before(last.args.A).array.length
            m == Before(last.args.B).array.length
            new == heap[last.ret].array
        IN /\ new.length = Max(n, m)
           /\ n >= m => new.length = n
           /\ n < m => new.length = m
           /\ new.length >= n /\ new.length >= m
           /\ DOMAIN new.values = Indices(new.length)

\* A Compose of a coarser A with a finer B.
C2_Witness ==
    /\ Composed
    /\ Before(last.args.A).array.length < Before(last.args.B).array.length
    /\ heap[last.ret].array.length = Before(last.args.B).array.length

\* C3: after a successful Compose(A, B) the new A has the old A's input bit
\* depth, B's output bit depth and the old A's stored interpolation, whichever
\* branch was taken.
C3_ComposeDepthsAndInterpolation ==
    Composed =>
        LET A == Before(last.args.A)
            B == Before(last.args.B)
            new == heap[last.ret]
        IN /\ new.inBitDepth = A.inBitDepth
           /\ new.outBitDepth = B.outBitDepth
           /\ new.interpolation = A.interpolation

\* A resampling Compose of LUTs that differ in interpolation and in depths.
C3_Witness ==
    /\ Composed
    /\ LET A == Before(last.args.A)
           B == Before(last.args.B)
       IN /\ A.array.length < B.array.length
          /\ A.interpolation # B.interpolation
          /\ A.inBitDepth # A.outBitDepth
          /\ B.outBitDepth # A.outBitDepth
          /\ heap[last.ret].interpolation = A.interpolation

\* C4, as claimed: the LUT MakeFastLut3DFromInverse returns has edge length
\* exactly 48, whatever the edge length of the inverse LUT.
C4_Original ==
    MadeFast => heap[last.ret].array.length = 48

\* C4, amended: the LUT MakeFastLut3DFromInverse returns has edge length 48
\* when the inverse LUT's edge length is at most 48, and the inverse LUT's edge
\* length when that is larger.
C4_FastLengthIsMaxWith48 ==
    MadeFast =>
        LET L == Before(last.args.lut).array.length
            got == heap[last.ret].array.length
        IN /\ L <= 48 => got = 48
           /\ L > 48 => got = L

\* A fast LUT made from an inverse LUT of edge length 49.
C4_Witness ==
    /\ MadeFast
    /\ Before(last.args.lut).array.length = 49
    /\ heap[last.ret].array.length = 49

\* C5: on an inverse LUT, MakeFastLut3DFromInverse returns a forward LUT with
\* the inverse LUT's input and output bit depths.
C5_FastDirectionAndDepths ==
    (last.op = "MakeFastLut3DFromInverse"
        /\ Before(last.args.lut).direction = "inverse") =>
        /\ ~last.threw
        /\ heap[last.ret].direction = "forward"
        /\ heap[last.ret].inBitDepth = Before(last.args.lut).inBitDepth
        /\ heap[last.ret].outBitDepth = Before(last.args.lut).outBitDepth

\* A fast LUT made from the inverse of a UINT8 -> UINT10 LUT: UINT10 -> UINT8.
C5_Witness ==
    /\ MadeFast
    /\ Before(last.args.lut).inBitDepth = "UINT10"
    /\ Before(last.args.lut).outBitDepth = "UINT8"
    /\ heap[last.ret].inBitDepth = "UINT10"
    /\ heap[last.ret].outBitDepth = "UINT8"

\* C6: on a forward LUT MakeFastLut3DFromInverse fails, and it has then made no
\* domain LUT, called no Compose and not touched the inversion style.
C6_FastFailsOnForward ==
    (last.op = "MakeFastLut3DFromInverse"
        /\ Before(last.args.lut).direction = "forward") =>
        /\ last.threw
        /\ last.what = "MakeFastLut3DFromInverse expects an inverse LUT"
        /\ last.trace = <<>> /\ last.ops = <<>> /\ last.domain = NoLut
        /\ heap = last.pre /\ ptr = last.prePtr

\* A failed call on a forward LUT whose inversion style is not the default.
C6_Witness ==
    /\ last.op = "MakeFastLut3DFromInverse" /\ last.threw
    /\ Before(last.args.lut).direction = "forward"
    /\ Before(last.args.lut).invQuality = "default"

\* The array of after is the array of before with every float multiplied by
\* (float) M(new) / (float) M(old), in binary32.
ScaledBy(after, before, new, old) ==
    LET k == FDiv(FromInt(GetBitDepthMaxValue(new)),
                  FromInt(GetBitDepthMaxValue(old)))
    IN /\ after.length = before.length
       /\ after.numColorComponents = before.numColorComponents
       /\ DOMAIN after.values = DOMAIN before.values
       /\ \A x \in DOMAIN before.values :
            after.values[x] = FMul(before.values[x], k)

\* Everything but the array and the bit depths is as before.
SameButArrayAndDepths(after, before) ==
    /\ after.interpolation = before.interpolation
    /\ after.direction = before.direction
    /\ after.invQuality = before.invQuality
    /\ after.metadata = before.metadata
    /\ after.cacheID = before.cacheID
    /\ after.array.length = before.array.length

MaxValuesAsDocumented ==
    /\ GetBitDepthMaxValue("UINT8") = 255
    /\ GetBitDepthMaxValue("UINT10") = 1023
    /\ GetBitDepthMaxValue("UINT12") = 4095
    /\ GetBitDepthMaxValue("UINT16") = 65535
    /\ GetBitDepthMaxValue("F16") = 1
    /\ GetBitDepthMaxValue("F32") = 1

\* C7: on a forward LUT of output depth d, setOutputBitDepth(d2) multiplies
\* every float of the array by M(d2)/M(d) and sets the output depth to d2; the
\* input depth, interpolation, direction, inversion quality and edge length
\* stay as they were.
C7_SetOutputScalesForward ==
    (last.op = "setOutputBitDepth"
        /\ Before(last.args.x).direction = "forward") =>
        LET old == Before(last.args.x)
            new == heap[last.ret]
        IN /\ MaxValuesAsDocumented
           /\ ScaledBy(new.array, old.array, last.args.out, old.outBitDepth)
           /\ new.outBitDepth = last.args.out
           /\ new.inBitDepth = old.inBitDepth
           /\ SameButArrayAndDepths(new, old)

\* A forward F32 LUT whose [0] was set to 20.f, taken to UINT8: [0] is 5100.f.
C7_Witness ==
    /\ last.op = "setOutputBitDepth"
    /\ Before(last.args.x).direction = "forward"
    /\ Before(last.args.x).outBitDepth = "F32"
    /\ last.args.out = "UINT8"
    /\ Before(last.args.x).array.values[0] = FromInt(20)
    /\ heap[last.ret].array.values[0] = FromInt(5100)

\* C8: the array is rescaled only by the setter of the side its samples are
\* expressed in.  On an inverse LUT setInputBitDepth(d) multiplies every float
\* by M(d)/M(bd_in) and setOutputBitDepth(d) changes the output tag alone; on a
\* forward LUT setInputBitDepth(d) changes the input tag alone.
C8_OnlyOneSetterScales ==
    /\ (last.op = "setInputBitDepth"
            /\ Before(last.args.x).direction = "inverse") =>
          LET old == Before(last.args.x)
              new == heap[last.ret]
          IN /\ ScaledBy(new.array, old.array, last.args.in, old.inBitDepth)
             /\ new.inBitDepth = last.args.in
             /\ new.outBitDepth = old.outBitDepth
             /\ SameButArrayAndDepths(new, old)
    /\ (last.op = "setOutputBitDepth"
            /\ Before(last.args.x).direction = "inverse") =>
          heap[last.ret] =
              [Before(last.args.x) EXCEPT !.outBitDepth = last.args.out]
    /\ (last.op = "setInputBitDepth"
            /\ Before(last.args.x).direction = "forward") =>
          heap[last.ret] =
              [Before(last.args.x) EXCEPT !.inBitDepth = last.args.in]

\* An inverse F32 LUT whose [0] was set to 20.f, its input taken to UINT8.
C8_Witness ==
    /\ last.op = "setInputBitDepth"
    /\ Before(last.args.x).direction = "inverse"
    /\ Before(last.args.x).inBitDepth = "F32"
    /\ last.args.in = "UINT8"
    /\ Before(last.args.x).array.values[0] = FromInt(20)
    /\ heap[last.ret].array.values[0] = FromInt(5100)
    /\ heap[last.ret].inBitDepth = "UINT8"

\* C9: X.inverse() returns a new LUT of the opposite direction, with X's output
\* depth as input depth and X's input depth as output depth, and with X's
\* array, edge length, interpolation and inversion quality; X is not modified.
C9_InverseFlipsAndSwaps ==
    last.op = "inverse" =>
        LET X == Before(last.args.x)
            new == heap[last.ret]
            id == last.prePtr[last.args.x]
        IN /\ ~last.threw
           /\ new.direction # X.direction /\ new.direction \in Directions
           /\ new.inBitDepth = X.outBitDepth
           /\ new.outBitDepth = X.inBitDepth
           /\ new.array = X.array
           /\ new.interpolation = X.interpolation
           /\ new.invQuality = X.invQuality
           /\ last.ret # id /\ last.pre[last.ret] = NoLut
           /\ heap[id] = X /\ ptr[last.args.x] = id

\* The inverse of a LUT with depths of different largest values, a style
\* that is not the constructor's, and a ramp that is not all zeros.
C9_Witness ==
    /\ last.op = "inverse"
    /\ LET X == Before(last.args.x)
       IN /\ GetBitDepthMaxValue(X.inBitDepth) # GetBitDepthMaxValue(X.outBitDepth)
          /\ X.invQuality = "exact"
          /\ X.interpolation = "tetrahedral"
          /\ \E x \in DOMAIN X.array.values : X.array.values[x] # FZero
          /\ heap[last.ret].array = X.array

\* C10: for every LUT X, X.inverse().inverse() == X under operator==, with the
\* same bit depths and the same array, and X.inverse() is not == X.
C10_InverseIsAnInvolution ==
    \A id \in Live(heap) :
        LET X == heap[id]
            Y == inverse(X)
            Z == inverse(Y)
        IN /\ LutEquals(Z, X)
           /\ Z.inBitDepth = X.inBitDepth /\ Z.outBitDepth = X.outBitDepth
           /\ Z.array = X.array
           /\ ~LutEquals(Y, X)

\* The caller has X, X.inverse() and X.inverse().inverse(), X with depths of
\* different largest values.
C10_Witness ==
    /\ last.op = "inverse"
    /\ \E g \in Live(heap) \ {last.ret, last.prePtr[last.args.x]} :
          /\ heap[g].inBitDepth # heap[g].outBitDepth
          /\ heap[last.prePtr[last.args.x]] = inverse(heap[g])
          /\ heap[last.ret] = inverse(inverse(heap[g]))
          /\ LutEquals(heap[last.ret], heap[g])
          /\ ~LutEquals(heap[last.prePtr[last.args.x]], heap[g])

-----------------------------------------------------------------------------
(* Const member functions as calls *)

\* A call of a const member function: no object changes, the call and the
\* value it returned are recorded.  Such a call takes nothing from the budget
\* of the calls that make or change objects.
Observe(op, args, value) ==
    /\ UNCHANGED <<heap, ptr, nops, frames, mutex>>
    /\ last' = Call(op, args, [Returned(0) EXCEPT !.value = value])

\* A const member function that threw.
ObserveThrew(op, args, what) ==
    /\ UNCHANGED <<heap, ptr, nops, frames, mutex>>
    /\ last' = Call(op, args, Threw(what))

-----------------------------------------------------------------------------
(* operator== as a call, on the LUTs of the equality test *)

\* *x == *y
Equals(x, y) ==
    /\ ptr[x] # 0 /\ ptr[y] # 0
    /\ Observe("operator==", [a |-> x, b |-> y],
               IF ptr[x] = ptr[y] THEN TRUE
               ELSE LutEquals(heap[ptr[x]], heap[ptr[y]]))

EqualityFullInputs ==
    {<<"F32", "F32", "linear", 2>>,
     <<"F32", "F32", "best", 2>>,
     <<"F16", "F32", "linear", 2>>,
     <<"F32", "F16", "linear", 2>>,
     <<"F32", "F32", "linear", 3>>}
EqualityMetadataInputs ==
    MetadataInputs
        \cup {[name |-> <<"lut2">>, children |-> <<"description of lut2">>]}

EqualityNext ==
    \/ \E f \in EqualityFullInputs, md \in EqualityMetadataInputs :
            ConstructFull(f[1], f[2], md, f[3], f[4])
    \/ \E x \in Handles, q \in InversionQualityInputs : SetInversionQuality(x, q)
    \/ \E x \in Handles, w \in WriteInputs : SetArrayValue(x, w[1], w[2])
    \/ \E x \in Handles : Inverse(x)
    \/ \E x \in Handles, y \in Handles : Equals(x, y)

EqualitySpec == Init /\ [][EqualityNext]_vars

SameForEquality(A, B) ==
    /\ A.direction = B.direction
    /\ A.interpolation = B.interpolation
    /\ A.inBitDepth = B.inBitDepth
    /\ A.outBitDepth = B.outBitDepth
    /\ A.array.length = B.array.length
    /\ A.array.values = B.array.values

\* C11: two LUTs compare equal exactly when their direction, stored
\* interpolation, input depth, output depth, edge length and every value of
\* the array match; giving one of them another inversion quality or other
\* metadata never changes the answer.
C11_EqualIffAttributesMatch ==
    last.op = "operator==" =>
        LET A == Before(last.args.a)
            B == Before(last.args.b)
        IN /\ last.value = SameForEquality(A, B)
           /\ \A q \in InversionQualities, md \in EqualityMetadataInputs :
                LutEquals([A EXCEPT !.invQuality = q, !.metadata = md], B)
                    = LutEquals(A, B)

\* Two objects of different inversion quality and metadata that compare equal.
C11_Witness ==
    /\ last.op = "operator=="
    /\ last.prePtr[last.args.a] # last.prePtr[last.args.b]
    /\ Before(last.args.a).invQuality # Before(last.args.b).invQuality
    /\ Before(last.args.a).metadata # Before(last.args.b).metadata
    /\ last.value = TRUE

-----------------------------------------------------------------------------
(* isInverse, on the LUTs of the is_inverse test *)

\* getArray().getValues().size()
getNumValues(array) == array.length * array.length * array.length * 3

\* A bug: the arrays are compared as they are, whatever the depths.
isInverseOf_NotHarmonized(lutfwd, lutinv) == haveEqualBasics(lutfwd, lutinv)

\* The static Lut3DOpData::isInverse(lutfwd, lutinv).
isInverseOf(lutfwd, lutinv) ==
    IF GetBitDepthMaxValue(lutfwd.outBitDepth)
          # GetBitDepthMaxValue(lutinv.inBitDepth)
    THEN IF getNumValues(lutfwd.array) # getNumValues(lutinv.array)
         THEN FALSE
         ELSE LET scaledLut == setOutputBitDepth(clone(lutfwd), lutinv.inBitDepth)
              IN haveEqualBasics(scaledLut, lutinv)
    ELSE haveEqualBasics(lutfwd, lutinv)

\* A bug: the directions are not required to differ.
isInverse_AnyDirection(A, B) ==
    IF A.direction = "forward" THEN isInverseOf(A, B) ELSE isInverseOf(B, A)

\* The member Lut3DOpData::isInverse(B), called on A.
isInverse(A, B) ==
    IF A.direction = "forward" /\ B.direction = "inverse"
    THEN isInverseOf(A, B)
    ELSE IF A.direction = "inverse" /\ B.direction = "forward"
    THEN isInverseOf(B, A)
    ELSE FALSE

\* x->isInverse(y)
IsInverse(x, y) ==
    /\ ptr[x] # 0 /\ ptr[y] # 0
    /\ Observe("isInverse", [a |-> x, b |-> y],
               isInverse(heap[ptr[x]], heap[ptr[y]]))

\* L1 of the test: U8 -> U10, linear, at edge lengths 5 and 2, as constructed
\* and with values[0] = 20.f.
IsInverseFullInputs ==
    {<<"UINT8", "UINT10", "linear", 5>>, <<"UINT8", "UINT10", "linear", 2>>}
IsInverseLuts ==
    LET made == {Lut3DOpDataFull(f[1], f[2], md, f[3], f[4]) :
                    f \in IsInverseFullInputs, md \in MetadataInputs}
    IN made \cup {[l EXCEPT !.array.values[0] = FromInt(20)] : l \in made}
IsInverseBitDepths == {"UINT12", "UINT10", "UINT8"}

\* The test after its set-up: the caller holds L1.
IsInverseInit ==
    /\ \E L1 \in IsInverseLuts :
          heap = [id \in ObjIds |-> IF id = 1 THEN L1 ELSE NoLut]
    /\ ptr = [x \in Handles |-> IF x = HandleSeq[1] THEN 1 ELSE 0]
    /\ last = [op |-> "none", args |-> NoArgs,
               pre |-> [id \in ObjIds |-> NoLut], prePtr |-> [x \in Handles |-> 0],
               threw |-> FALSE, what |-> "", ret |-> 0, trace |-> <<>>,
               ops |-> <<>>, domain |-> NoLut, value |-> "void"]
    /\ nops = 0
    /\ NoCallRunning

IsInverseNext ==
    \/ \E x \in Handles : Inverse(x)
    \/ \E x \in Handles, d \in IsInverseBitDepths : SetOutputBitDepth(x, d)
    \/ \E x \in Handles, y \in Handles : IsInverse(x, y)

IsInverseSpec == IsInverseInit /\ [][IsInverseNext]_vars

\* The forward and the inverse LUT of the last isInverse call.
OneOfEachDirection ==
    /\ last.op = "isInverse"
    /\ Before(last.args.a).direction # Before(last.args.b).direction
ForwardOne ==
    IF Before(last.args.a).direction = "forward"
    THEN Before(last.args.a) ELSE Before(last.args.b)
InverseOne ==
    IF Before(last.args.a).direction = "inverse"
    THEN Before(last.args.a) ELSE Before(last.args.b)

\* C12 as claimed: a forward LUT X and Y = X.inverse() are inverses of each
\* other, whichever is asked, and stay so after any rescaling
\* setOutputBitDepth calls on X.
C12_Original ==
    OneOfEachDirection => last.value = TRUE

\* The arrays the test starts from.
IsInverseArrays == {l.array : l \in IsInverseLuts}

\* C12: a forward LUT X and Y = X.inverse() are inverses of each other,
\* whichever is asked.  After rescaling setOutputBitDepth calls on X they are
\* so exactly when X's floats, multiplied in binary32 by
\* (float) M(Y.bd_in) / (float) M(X.bd_out), are Y's floats: the comparison
\* after harmonizing is exact.  That is the case for U10 -> U12 and
\* U10 -> U12 -> U10 on the LUT of the test.
C12_IsInverseAfterRescale ==
    /\ (OneOfEachDirection
           /\ ForwardOne.array = InverseOne.array
           /\ ForwardOne.outBitDepth = InverseOne.inBitDepth) =>
          last.value = TRUE
    /\ OneOfEachDirection =>
          /\ last.value =
                (/\ ForwardOne.array.length = InverseOne.array.length
                 /\ \A x \in DOMAIN ForwardOne.array.values :
                       FMul(ForwardOne.array.values[x],
                            scaleFactorOf(InverseOne.inBitDepth,
                                          ForwardOne.outBitDepth))
                          = InverseOne.array.values[x])
          /\ last.value = isInverse(Before(last.args.b), Before(last.args.a))
    /\ \A idX \in Live(heap), idY \in Live(heap) :
          LET X == heap[idX]
              Y == heap[idY]
              X12 == setOutputBitDepth(X, "UINT12")
              X10 == setOutputBitDepth(X12, "UINT10")
          IN (/\ X.direction = "forward" /\ Y.direction = "inverse"
              /\ X.outBitDepth = "UINT10" /\ Y.inBitDepth = "UINT10"
              /\ X.array = Y.array
              /\ X.array \in IsInverseArrays) =>
                /\ isInverse(X12, Y) /\ isInverse(Y, X12)
                /\ isInverse(X10, Y) /\ isInverse(Y, X10)

\* L1 with values[0] = 20.f taken to U12 after L2 = L1->inverse() was made:
\* L2->isInverse(L1) is true.
C12_Witness ==
    /\ OneOfEachDirection
    /\ last.value = TRUE
    /\ ForwardOne.outBitDepth = "UINT12"
    /\ InverseOne.inBitDepth = "UINT10"
    /\ InverseOne.array.values[0] = FromInt(20)
    /\ Before(last.args.a).direction = "inverse"

-----------------------------------------------------------------------------
(* validate and finalize *)

\* A bug: cubic is accepted.
IsValid_AcceptsCubic(interpolation) ==
    interpolation \in {"best", "tetrahedral", "default", "linear", "nearest", "cubic"}

IsValid(interpolation) ==
    CASE interpolation \in {"best", "tetrahedral", "default", "linear", "nearest"}
            -> TRUE
      [] interpolation \in {"cubic", "unknown"} -> FALSE
      [] OTHER -> FALSE

\* What Lut3DOpData::validate throws, "" when it returns.  OpData::validate
\* and Array::validate find nothing to refuse in a LUT of known depths whose
\* storage has the size of its dimensions.
validate(lut) ==
    IF ~IsValid(lut.interpolation)
    THEN "Lut3D has an invalid interpolation type. "
    ELSE IF lut.array.numColorComponents # 3
    THEN "Lut3D has an incorrect number of color components. "
    ELSE IF lut.array.length > maxSupportedLength
    THEN "Lut3D length is not supported. "
    ELSE ""

\* The printable md5 digest of the floats of the array.  The digest is taken
\* as one-to-one, so the floats stand for it.
GetPrintableHash(values) == [md5 |-> values]

\* The names the enumerations are printed with, one per value.
InterpolationToString(interpolation) == interpolation
TransformDirectionToString(direction) == direction
BitDepthToString(bd) ==
    CASE bd = "UINT8" -> "8ui" [] bd = "UINT10" -> "10ui"
      [] bd = "UINT12" -> "12ui" [] bd = "UINT16" -> "16ui"
      [] bd = "F16" -> "16f" [] bd = "F32" -> "32f"

\* A bug: the inversion quality is written into the cache ID.
finalize_WithInversionQuality(lut) ==
    [lut EXCEPT !.cacheID =
        <<GetPrintableHash(lut.array.values),
          InterpolationToString(lut.interpolation),
          TransformDirectionToString(lut.direction),
          BitDepthToString(lut.inBitDepth),
          lut.invQuality>>]

\* Lut3DOpData::finalize past validate(): the cache ID is the digest and the
\* four names, with a space between them.
finalize(lut) ==
    [lut EXCEPT !.cacheID =
        <<GetPrintableHash(lut.array.values),
          InterpolationToString(lut.interpolation),
          TransformDirectionToString(lut.direction),
          BitDepthToString(lut.inBitDepth),
          BitDepthToString(lut.outBitDepth)>>]

\* A bug: a finalize() whose validation fails clears the cache ID.
Finalize_ClearsCacheID(x) ==
    /\ CanCall /\ ptr[x] # 0
    /\ IF validate(heap[ptr[x]]) # ""
       THEN /\ heap' = [heap EXCEPT ![ptr[x]].cacheID = <<>>]
            /\ ptr' = ptr
            /\ last' = Call("finalize", [x |-> x], Threw(validate(heap[ptr[x]])))
            /\ nops' = nops + 1 /\ UNCHANGED <<frames, mutex>>
       ELSE Mutate("finalize", [x |-> x], x, finalize(heap[ptr[x]]))

Finalize(x) ==
    /\ CanCall /\ ptr[x] # 0
    /\ IF validate(heap[ptr[x]]) # ""
       THEN /\ UNCHANGED <<heap, ptr>>
            /\ last' = Call("finalize", [x |-> x], Threw(validate(heap[ptr[x]])))
            /\ nops' = nops + 1 /\ UNCHANGED <<frames, mutex>>
       ELSE Mutate("finalize", [x |-> x], x, finalize(heap[ptr[x]]))

\* Two LUTs to compare the cache IDs of: each is the LUT (F32, F32, linear, 2),
\* or differs from it in one attribute; the first carries the metadata of
\* lut1 and the second that of lut2.
CacheIdLuts(md) ==
    LET base == Lut3DOpDataFull("F32", "F32", md, "linear", 2)
    IN {base,
        Lut3DOpDataFull("F32", "F32", md, "best", 2),
        Lut3DOpDataFull("F16", "F32", md, "linear", 2),
        Lut3DOpDataFull("F32", "F16", md, "linear", 2),
        Lut3DOpDataFull("F32", "F32", md, "linear", 3),
        Lut3DOpDataFull("F32", "F32", md, "cubic", 2),
        inverse(base)}

CacheIdInit ==
    /\ \E A \in CacheIdLuts([name |-> <<"lut1">>,
                             children |-> <<"description of lut1">>]),
          B \in CacheIdLuts([name |-> <<"lut2">>,
                             children |-> <<"description of lut2">>]) :
          heap = [id \in ObjIds |-> IF id = 1 THEN A ELSE IF id = 2 THEN B ELSE NoLut]
    /\ ptr = [x \in Handles |->
                IF x = HandleSeq[1] THEN 1 ELSE IF x = HandleSeq[2] THEN 2 ELSE 0]
    /\ last = [op |-> "none", args |-> NoArgs,
               pre |-> [id \in ObjIds |-> NoLut], prePtr |-> [x \in Handles |-> 0],
               threw |-> FALSE, what |-> "", ret |-> 0, trace |-> <<>>,
               ops |-> <<>>, domain |-> NoLut, value |-> "void"]
    /\ nops = 0
    /\ NoCallRunning

CacheIdNext ==
    \/ \E x \in Handles : SetInversionQuality(x, "exact")
    \/ \E x \in Handles : SetArrayValue(x, 0, FromInt(20))
    \/ \E x \in Handles : Finalize(x)

CacheIdSpec == CacheIdInit /\ [][CacheIdNext]_vars

\* finalize() has succeeded on the LUT and the LUT is as finalize() left it.
Finalized(lut) ==
    /\ lut.cacheID # <<>>
    /\ validate(lut) = ""
    /\ finalize(lut) = lut

\* C13: two LUTs on which finalize() has succeeded have the same cache ID
\* exactly when their arrays, stored interpolations, directions, input depths
\* and output depths are the same (the digest taken as one-to-one); the
\* inversion quality and the metadata have no part in it.
C13_CacheIdEqualIffAttributesMatch ==
    /\ (last.op = "finalize" /\ ~last.threw) => Finalized(heap[last.ret])
    /\ \A idA \in Live(heap), idB \in Live(heap) :
          (Finalized(heap[idA]) /\ Finalized(heap[idB])) =>
              ((heap[idA].cacheID = heap[idB].cacheID)
                  <=> SameForEquality(heap[idA], heap[idB]))

\* Two finalized LUTs of different inversion quality and metadata with one
\* cache ID.
C13_Witness ==
    /\ last.op = "finalize" /\ ~last.threw
    /\ \E idA \in Live(heap), idB \in Live(heap) :
          /\ idA # idB
          /\ Finalized(heap[idA]) /\ Finalized(heap[idB])
          /\ heap[idA].invQuality # heap[idB].invQuality
          /\ heap[idA].metadata # heap[idB].metadata
          /\ heap[idA].cacheID = heap[idB].cacheID

-----------------------------------------------------------------------------
(* setInterpolation, validate and getConcreteInterpolation as calls *)

setInterpolation(lut, algo) == [lut EXCEPT !.interpolation = algo]

SetInterpolation(x, algo) ==
    /\ CanCall /\ ptr[x] # 0
    /\ Mutate("setInterpolation", [x |-> x, algo |-> algo], x,
              setInterpolation(heap[ptr[x]], algo))

Validate(x) ==
    /\ ptr[x] # 0
    /\ IF validate(heap[ptr[x]]) # ""
       THEN ObserveThrew("validate", [x |-> x], validate(heap[ptr[x]]))
       ELSE Observe("validate", [x |-> x], "void")

\* A bug: nearest is returned as it is stored.
getConcreteInterpolation_NearestAsStored(lut) ==
    CASE lut.interpolation \in {"best", "tetrahedral"} -> "tetrahedral"
      [] lut.interpolation = "nearest" -> "nearest"
      [] OTHER -> "linear"

getConcreteInterpolation(lut) ==
    CASE lut.interpolation \in {"best", "tetrahedral"} -> "tetrahedral"
      [] lut.interpolation \in {"default", "linear", "cubic", "nearest"} -> "linear"
      [] lut.interpolation = "unknown" -> "linear"
      [] OTHER -> "linear"

GetConcreteInterpolation(x) ==
    /\ ptr[x] # 0
    /\ Observe("getConcreteInterpolation", [x |-> x],
               getConcreteInterpolation(heap[ptr[x]]))

\* The LUTs of the interpolation test: Lut3DOpData(2), the longest LUT, and a
\* LUT constructed with an interpolation validate() refuses.
InterpolationGridSizes == {2, maxSupportedLength}

InterpolationNext ==
    \/ \E g \in InterpolationGridSizes : Construct(g)
    \/ \E md \in MetadataInputs : ConstructFull("UINT8", "UINT10", md, "cubic", 2)
    \/ \E x \in Handles, algo \in Interpolations : SetInterpolation(x, algo)
    \/ \E x \in Handles : Validate(x)
    \/ \E x \in Handles : GetConcreteInterpolation(x)

InterpolationSpec == Init /\ [][InterpolationNext]_vars

\* C14: setInterpolation stores any Interpolation value without error.
\* validate() on a LUT of 3 channels and L <= 129 fails exactly when the stored
\* interpolation is cubic or unknown, with "invalid interpolation", and passes
\* for linear, nearest, tetrahedral, default and best: whatever was stored
\* before, a valid value stored now makes validate() pass.
C14_ValidateFollowsStoredInterpolation ==
    /\ last.op = "setInterpolation" =>
          /\ ~last.threw
          /\ last.args.algo \in Interpolations
          /\ heap[last.ret] =
                [Before(last.args.x) EXCEPT !.interpolation = last.args.algo]
    /\ (last.op = "validate"
            /\ Before(last.args.x).array.numColorComponents = 3
            /\ Before(last.args.x).array.length <= 129) =>
          /\ last.threw <=>
                Before(last.args.x).interpolation \in {"cubic", "unknown"}
          /\ ~last.threw <=>
                Before(last.args.x).interpolation
                    \in {"linear", "nearest", "tetrahedral", "default", "best"}
          /\ last.threw =>
                last.what = "Lut3D has an invalid interpolation type. "

\* The LUT constructed with cubic, given linear since: validate() passes.
C14_Witness ==
    /\ last.op = "validate" /\ ~last.threw
    /\ Before(last.args.x).metadata # EmptyMetadata
    /\ Before(last.args.x).interpolation = "linear"

\* C15: getConcreteInterpolation returns tetrahedral exactly when the stored
\* interpolation is tetrahedral or best, and linear for every other stored
\* value, cubic and unknown included; it returns nothing else and leaves the
\* stored interpolation as it is.
C15_ConcreteInterpolation ==
    last.op = "getConcreteInterpolation" =>
        LET stored == Before(last.args.x).interpolation
        IN /\ (last.value = "tetrahedral") <=> (stored \in {"tetrahedral", "best"})
           /\ (last.value = "linear") <=>
                 (stored \in {"default", "linear", "nearest", "cubic", "unknown"})
           /\ last.value \in {"linear", "tetrahedral"}
           /\ heap = last.pre
           /\ heap[last.prePtr[last.args.x]].interpolation = stored

\* Nearest was stored: linear is returned and nearest stays stored.
C15_Witness ==
    /\ last.op = "getConcreteInterpolation"
    /\ Before(last.args.x).interpolation = "nearest"
    /\ last.value = "linear"
    /\ heap[last.prePtr[last.args.x]].interpolation = "nearest"

-----------------------------------------------------------------------------
(* The edge length: constructors, resize, Compose, MakeFastLut3DFromInverse *)

\* getArray().resize(length, 3)
Resize(x, length) ==
    /\ CanCall /\ ptr[x] # 0
    /\ IF resizeThrows(length)
       THEN /\ UNCHANGED <<heap, ptr>>
            /\ last' = Call("resize", [x |-> x, length |-> length],
                            Threw(ResizeWhat))
            /\ nops' = nops + 1 /\ UNCHANGED <<frames, mutex>>
       ELSE Mutate("resize", [x |-> x, length |-> length], x,
                   [heap[ptr[x]] EXCEPT
                      !.array = resize(heap[ptr[x]].array, length, 3)])

\* The lengths around the longest supported one, and the shortest ones.
LengthGridSizes == {2, maxSupportedLength, maxSupportedLength + 1,
                    maxSupportedLength + 2}
LengthResizes == {1, 2, maxSupportedLength, maxSupportedLength + 1}

LengthNext ==
    \/ \E g \in LengthGridSizes : Construct(g)
    \/ \E g \in LengthGridSizes : ConstructDir(g, "inverse")
    \/ \E g \in LengthGridSizes, md \in MetadataInputs :
            ConstructFull("UINT8", "UINT10", md, "linear", g)
    \/ \E x \in Handles, length \in LengthResizes : Resize(x, length)
    \/ \E x \in Handles, y \in Handles, v \in EvalSamples : Compose(x, y, v)
    \/ \E x \in Handles, v \in EvalSamples : MakeFastLut3DFromInverse(x, v)

LengthSpec == Init /\ [][LengthNext]_vars

Constructing == last.op \in {"Lut3DOpData", "Lut3DOpDataDir", "Lut3DOpDataFull"}

\* C16: constructing a LUT, or resizing its array, succeeds for the edge
\* length 129 and fails for every edge length above 129, 130 included, with an
\* error that says "must not be greater".
C16_LongestSupportedLength ==
    /\ Constructing =>
          /\ last.threw <=> last.args.gridSize > 129
          /\ last.threw =>
                /\ last.what = "LUT 3D: Grid size must not be greater than '129'."
                /\ heap = last.pre
          /\ ~last.threw => heap[last.ret].array.length = last.args.gridSize
    /\ last.op = "resize" =>
          /\ last.threw <=> last.args.length > 129
          /\ last.threw =>
                /\ last.what = "LUT 3D: Grid size must not be greater than '129'."
                /\ heap = last.pre
          /\ ~last.threw => heap[last.ret].array.length = last.args.length

\* A LUT constructed at 129 whose array refuses to be resized to 130.
C16_Witness ==
    /\ last.op = "resize" /\ last.threw
    /\ last.args.length = 130
    /\ Before(last.args.x).array.length = 129
    /\ heap[last.prePtr[last.args.x]].array.length = 129

\* C17 as claimed: every LUT there is has an edge length L with
\* 2 <= L <= 129, and 3 channels.
C17_LengthAndChannels ==
    \A id \in Live(heap) :
        /\ 2 <= heap[id].array.length
        /\ heap[id].array.length <= 129
        /\ heap[id].array.numColorComponents = 3

-----------------------------------------------------------------------------
(* isIdentity, isNoOp and hasChannelCrosstalk on a LUT as it was constructed *)

\* 0.0001f, the float nearest to 1e-4
AbsError == <<13743895, -37>>

\* value1 < value2
FLess(a, b) ==
    IF b[1] = 0 THEN FALSE
    ELSE IF a[1] = 0 THEN TRUE
    ELSE a[2] < b[2] \/ (a[2] = b[2] /\ a[1] < b[1])

\* d1 * 2^e1 <= d2 * 2^e2, for positive integers below 2^30
LeqScaled(d1, e1, d2, e2) ==
    IF e1 >= e2
    THEN IF e1 - e2 > 30 THEN FALSE ELSE d1 <= d2 \div 2^(e1 - e2)
    ELSE IF e2 - e1 > 30 THEN TRUE
         ELSE (d1 + (2^(e2 - e1) - 1)) \div 2^(e2 - e1) <= d2

\* EqualWithAbsError: |value1 - value2| <= eps, for finite values none of
\* which is negative.  With hi the larger and lo the smaller of the values,
\* the difference is taken exactly when hi and lo are less than 2^7 apart,
\* and hi - eps is compared with lo otherwise.
EqualWithAbsError(value1, value2, eps) ==
    IF value1 = value2 THEN TRUE
    ELSE LET hi == IF FLess(value1, value2) THEN value2 ELSE value1
             lo == IF FLess(value1, value2) THEN value1 ELSE value2
         IN IF ~FLess(eps, hi) THEN TRUE
            ELSE IF lo[1] = 0 THEN FALSE
            ELSE IF hi[2] - lo[2] <= 6
            THEN LeqScaled(hi[1] * 2^(hi[2] - lo[2]) - lo[1], lo[2],
                           eps[1], eps[2])
            ELSE IF hi[2] - eps[2] <= 6
            THEN LeqScaled(hi[1] * 2^(hi[2] - eps[2]) - eps[1], eps[2],
                           lo[1], lo[2])
            ELSE FALSE

\* Lut3DArray::isIdentity, over the floats the model keeps.
isIdentityArray(array, outBitDepth) ==
    LET length == array.length
        stepSize == FDiv(FromInt(GetBitDepthMaxValue(outBitDepth)),
                         FromInt(length - 1))
    IN \A x \in DOMAIN array.values :
          EqualWithAbsError(array.values[x],
                            FMul(FromInt(rampCoord(length, x)), stepSize),
                            AbsError)

isIdentity(lut) == isIdentityArray(lut.array, lut.outBitDepth)

isNoOp(lut) == FALSE

\* OpData::hasChannelCrosstalk as Lut3DOpData overrides it.
hasChannelCrosstalk(lut) == TRUE

IsIdentity(x) ==
    /\ ptr[x] # 0
    /\ Observe("isIdentity", [x |-> x], isIdentity(heap[ptr[x]]))

IsNoOp(x) ==
    /\ ptr[x] # 0
    /\ Observe("isNoOp", [x |-> x], isNoOp(heap[ptr[x]]))

HasChannelCrosstalk(x) ==
    /\ ptr[x] # 0
    /\ Observe("hasChannelCrosstalk", [x |-> x],
               hasChannelCrosstalk(heap[ptr[x]]))

\* The edge lengths of the identity tests: the shortest ones, the powers of two
\* and their successors up to the longest supported one.
IdentityGridSizes == {2, 3, 4, 5, 8, 9, 17, 33, 65, 128, maxSupportedLength}

\* The interpolations the LUTs are constructed with: two that validate()
\* accepts and one it refuses.
IdentityInterpolations == {"linear", "best", "cubic"}

\* One LUT is constructed, any output depth and edge length, and is asked
\* what it is, before and after a float of it is written over.
IdentityNext ==
    \/ \E g \in IdentityGridSizes : Live(heap) = {} /\ Construct(g)
    \/ \E in \in {"UINT8", "F32"}, out \in BitDepths,
          interp \in IdentityInterpolations, g \in IdentityGridSizes :
          Live(heap) = {} /\ ConstructFull(in, out, EmptyMetadata, interp, g)
    \/ \E x \in Handles : SetArrayValue(x, 0, FromInt(20))
    \/ \E x \in Handles : IsIdentity(x)
    \/ \E x \in Handles : Validate(x)
    \/ \E x \in Handles : IsNoOp(x)
    \/ \E x \in Handles : HasChannelCrosstalk(x)

IdentitySpec == Init /\ [][IdentityNext]_vars

\* The float (float)coord * (M(d) / (L - 1)) of binary32.
RampValue(coord, length, bd) ==
    FMul(FromInt(coord),
         FDiv(FromInt(GetBitDepthMaxValue(bd)), FromInt(length - 1)))

\* The LUT is the identity the constructor fills in: node (i, j, k) holds
\* (i*s, j*s, k*s) at the flat indices 3*(i*L*L + j*L + k) + {0, 1, 2}.
HoldsRamp(lut) ==
    LET L == lut.array.length IN
    \A i \in Coords(L), j \in Coords(L), k \in Coords(L) :
        LET at == 3 * (i * L * L + j * L + k) IN
        /\ lut.array.values[at]     = RampValue(i, L, lut.outBitDepth)
        /\ lut.array.values[at + 1] = RampValue(j, L, lut.outBitDepth)
        /\ lut.array.values[at + 2] = RampValue(k, L, lut.outBitDepth)

\* The object the last call was made on is as its constructor left it.
AsConstructed(x) == ptr[x] # 0 /\ nops = 1

\* C18 as claimed: for every edge length in [2, 129] and every output depth a
\* newly constructed LUT holds the identity ramp, and isIdentity() is true,
\* validate() passes, isNoOp() is false and hasChannelCrosstalk() is true.
C18_Original ==
    /\ (Constructing /\ ~last.threw) =>
          /\ HoldsRamp(heap[last.ret])
          /\ isIdentity(heap[last.ret])
          /\ validate(heap[last.ret]) = ""
          /\ ~isNoOp(heap[last.ret])
          /\ hasChannelCrosstalk(heap[last.ret])
    /\ (last.op = "validate" /\ AsConstructed(last.args.x)) => ~last.threw

\* C18: for every edge length in [2, 129] and every output depth a newly
\* constructed LUT holds at node (i, j, k) the triple (i*s, j*s, k*s) with
\* s = M(d)/(L-1); isIdentity() is true, isNoOp() is false and
\* hasChannelCrosstalk() is true; validate() passes when the interpolation the
\* LUT was constructed with is a valid one, and fails when it is not.
C18_NewLutIsIdentity ==
    /\ (Constructing /\ ~last.threw) =>
          LET lut == heap[last.ret] IN
          /\ HoldsRamp(lut)
          /\ isIdentity(lut)
          /\ validate(lut) = "" <=> IsValid(lut.interpolation)
          /\ ~isNoOp(lut)
          /\ hasChannelCrosstalk(lut)
    /\ (last.op = "isIdentity" /\ AsConstructed(last.args.x)) =>
          last.value = TRUE
    /\ (last.op = "isNoOp" /\ AsConstructed(last.args.x)) =>
          last.value = FALSE
    /\ (last.op = "hasChannelCrosstalk" /\ AsConstructed(last.args.x)) =>
          last.value = TRUE
    /\ (last.op = "validate" /\ AsConstructed(last.args.x)) =>
          (last.threw <=>
              heap[ptr[last.args.x]].interpolation \in {"cubic", "unknown"})

\* The longest LUT, of 16-bit output, answered that it is an identity.
C18_Witness ==
    /\ last.op = "isIdentity" /\ last.value = TRUE
    /\ AsConstructed(last.args.x)
    /\ heap[ptr[last.args.x]].array.length = 129
    /\ heap[ptr[last.args.x]].outBitDepth = "UINT16"
    /\ HoldsRamp(heap[ptr[last.args.x]])

-----------------------------------------------------------------------------
(* setArrayFromRedFastestOrder, getRGB *)

RedFastestWhat == "Lut3DOpData length does not match the vector size."

\* The elements of a set of numbers, the least first.
RECURSIVE Ascending(_)
Ascending(S) ==
    IF S = {} THEN <<>>
    ELSE LET lo == CHOOSE n \in S : \A other \in S : n <= other
         IN <<lo>> \o Ascending(S \ {lo})

\* The index into Lut3DOpData's array: blue changes fastest.
blueFastIdx(lutSize, r, g, b) == 3 * ((r * lutSize + g) * lutSize + b)

\* A bug: green changes fastest in the vector that is read.
redFastIdx_GreenFastest(lutSize, r, g, b) == 3 * ((b * lutSize + r) * lutSize + g)

\* The index into the float vector: red changes fastest.
redFastIdx(lutSize, r, g, b) == 3 * ((b * lutSize + g) * lutSize + r)

\* The iterations <<b, g, r>> of the three loops, in the order they run, for
\* the nodes the model keeps.
RedFastestLoop(lutSize) ==
    LET cs == Ascending(Coords(lutSize))
        n == Len(cs)
    IN [t \in 1..(n * n * n) |->
          <<cs[((t - 1) \div (n * n)) + 1],
            cs[(((t - 1) \div n) % n) + 1],
            cs[((t - 1) % n) + 1]>>]

\* The loops of setArrayFromRedFastestOrder from iteration `todo` on.  The
\* vector is a reference: when it is the array's own storage (own), an
\* iteration reads what the iterations before it wrote.
RECURSIVE copyRedFastest(_, _, _, _, _)
copyRedFastest(values, lut, own, lutSize, todo) ==
    IF todo = <<>> THEN values
    ELSE LET b == Head(todo)[1]
             g == Head(todo)[2]
             r == Head(todo)[3]
             from == IF own THEN values ELSE lut
             blue == blueFastIdx(lutSize, r, g, b)
             red == redFastIdx(lutSize, r, g, b)
         IN copyRedFastest([values EXCEPT ![blue + 0] = from[red + 0],
                                          ![blue + 1] = from[red + 1],
                                          ![blue + 2] = from[red + 2]],
                           lut, own, lutSize, Tail(todo))

setArrayFromRedFastestOrderThrows(array, size) ==
    array.length * array.length * array.length * 3 # size

setArrayFromRedFastestOrder(lut, vec, own) ==
    [lut EXCEPT !.array.values =
        copyRedFastest(lut.array.values, vec.values, own, lut.array.length,
                       RedFastestLoop(lut.array.length))]

\* A std::vector<float>: its size and its floats at the kept indices.
FloatVector(size, values) == [size |-> size, values |-> values]

\* The vectors a LUT of the given array is handed: of the right size with
\* floats that all differ, rising or falling; one float too short, one triple
\* too long, empty.
RedFastestVectors(array) ==
    LET L == array.length
        n == getNumValues(array)
        rising == [x \in Indices(L) |-> FromInt(x + 1)]
        falling == [x \in Indices(L) |-> FromInt(n - x)]
    IN {FloatVector(n, rising), FloatVector(n, falling)}
         \cup {FloatVector(size, rising) : size \in {n - 1, n + 3, 0}}

SetArrayFromRedFastestOrder(x, vec, own) ==
    /\ CanCall /\ ptr[x] # 0
    /\ LET args == [x |-> x, lut |-> vec, own |-> own] IN
       IF setArrayFromRedFastestOrderThrows(heap[ptr[x]].array, vec.size)
       THEN /\ UNCHANGED <<heap, ptr>>
            /\ last' = Call("setArrayFromRedFastestOrder", args,
                            Threw(RedFastestWhat))
            /\ nops' = nops + 1 /\ UNCHANGED <<frames, mutex>>
       ELSE Mutate("setArrayFromRedFastestOrder", args, x,
                   setArrayFromRedFastestOrder(heap[ptr[x]], vec, own))

\* getArray().getValues(), the vector that is the array's own storage.
OwnValues(array) == FloatVector(getNumValues(array), array.values)

getRGB(array, i, j, k) ==
    LET offset == (i * array.length * array.length + j * array.length + k)
                     * array.numColorComponents
    IN <<array.values[offset], array.values[offset + 1],
         array.values[offset + 2]>>

GetRGB(x, i, j, k) ==
    /\ ptr[x] # 0
    /\ Observe("getRGB", [x |-> x, i |-> i, j |-> j, k |-> k],
               getRGB(heap[ptr[x]].array, i, j, k))

RedFastestGridSizes == {2, 3, 5, maxSupportedLength}

\* A LUT is constructed, one of its floats is written, it is handed vectors
\* in red fastest order (its own storage among them) and its nodes are read.
RedFastestNext ==
    \/ \E g \in RedFastestGridSizes : Live(heap) = {} /\ Construct(g)
    \/ \E x \in Handles : SetArrayValue(x, 1, FromInt(20))
    \/ \E x \in Handles :
          /\ ptr[x] # 0
          /\ \E vec \in RedFastestVectors(heap[ptr[x]].array) :
                SetArrayFromRedFastestOrder(x, vec, FALSE)
    \/ \E x \in Handles :
          /\ ptr[x] # 0
          /\ SetArrayFromRedFastestOrder(x, OwnValues(heap[ptr[x]].array), TRUE)
    \/ \E x \in Handles :
          /\ ptr[x] # 0
          /\ \E i, j, k \in Coords(heap[ptr[x]].array.length) : GetRGB(x, i, j, k)

RedFastestSpec == Init /\ [][RedFastestNext]_vars

Repacking == last.op = "setArrayFromRedFastestOrder"

\* The triple of the vector v that starts at index at.
TripleAt(v, at) == <<v[at], v[at + 1], v[at + 2]>>

\* The array holds the vector v repacked: the triple at node (r, g, b) is v's
\* triple at 3*((b*L+g)*L+r), and the nodes and v's triples pair off.
RepackedFrom(array, v) ==
    LET L == array.length
        nodes == Coords(L) \X Coords(L) \X Coords(L)
        source(n) == 3 * ((n[3] * L + n[2]) * L + n[1])
    IN /\ \A n \in nodes :
             getRGB(array, n[1], n[2], n[3]) = TripleAt(v, source(n))
       /\ \A n1, n2 \in nodes : source(n1) = source(n2) => n1 = n2
       /\ {source(n) : n \in nodes} = {x \in DOMAIN v : x % 3 = 0}

\* The call fails exactly for a vector whose length is not 3*L^3, and then
\* changes nothing.
RepackFailsOnLength ==
    Repacking =>
       /\ last.threw <=>
             last.args.lut.size # 3 * Before(last.args.x).array.length
                                    * Before(last.args.x).array.length
                                    * Before(last.args.x).array.length
       /\ last.threw => heap = last.pre /\ last.what = RedFastestWhat

\* C19 as claimed: for any vector v of length 3*L^3, the LUT's own among
\* them, the call leaves at node (r, g, b) v's triple at 3*((b*L+g)*L+r), a
\* permutation of the triples; for any other length it fails.
C19_Original ==
    /\ RepackFailsOnLength
    /\ (Repacking /\ ~last.threw) =>
          RepackedFrom(heap[last.ret].array, last.args.lut.values)

\* C19: for a vector v of length 3*L^3 that is not the array's own storage,
\* setArrayFromRedFastestOrder(v) leaves at node (r, g, b) (flat index
\* 3*((r*L+g)*L+b)) v's triple at 3*((b*L+g)*L+r), a permutation of the
\* triples that loses and duplicates none, and changes nothing else of the
\* LUT; for any other length of v it fails and changes nothing.
C19_RepackFromRedFastest ==
    /\ RepackFailsOnLength
    /\ (Repacking /\ ~last.threw /\ ~last.args.own) =>
          /\ RepackedFrom(heap[last.ret].array, last.args.lut.values)
          /\ [heap EXCEPT ![last.ret].array.values =
                 Before(last.args.x).array.values] = last.pre
    /\ last.op = "getRGB" =>
          LET array == heap[ptr[last.args.x]].array IN
          last.value = TripleAt(array.values,
                                blueFastIdx(array.length, last.args.i,
                                            last.args.j, last.args.k))

\* The longest LUT repacked from a vector of its length: node (128, 0, 1)
\* holds what the vector holds for red 128 of blue 1, which node (1, 0, 128)
\* does not hold.
C19_Witness ==
    /\ Repacking /\ ~last.threw /\ ~last.args.own
    /\ heap[last.ret].array.length = 129
    /\ getRGB(heap[last.ret].array, 128, 0, 1)
          = TripleAt(last.args.lut.values, 3 * ((1 * 129 + 0) * 129 + 128))
    /\ getRGB(heap[last.ret].array, 128, 0, 1)
          # getRGB(heap[last.ret].array, 1, 0, 128)

-----------------------------------------------------------------------------
(* clone as a call *)

\* A bug: the pointer returned points to the object that was cloned.
CloneTarget_Shared(h, id) == id

\* std::make_shared: the object the copy is constructed in.
CloneTarget(h, id) == NewId(h)

Clone(x) ==
    /\ CanAllocate /\ ptr[x] # 0
    /\ LET id == CloneTarget(heap, ptr[x]) IN
       /\ heap' = [heap EXCEPT ![id] = clone(heap[ptr[x]])]
       /\ ptr' = [ptr EXCEPT ![NewHandle(ptr)] = id]
       /\ last' = Call("clone", [x |-> x], Returned(id))
       /\ nops' = nops + 1 /\ UNCHANGED <<frames, mutex>>

\* The LUTs that are cloned: the one of the clone test, Lut3DOpData(33) with
\* 0.1f at index 1, a LUT of integer depths, and its inverse.
CloneLuts ==
    LET ref == Lut3DOpData(33)
        lut == Lut3DOpDataFull("UINT8", "UINT10", EmptyMetadata, "tetrahedral", 2)
    IN {[ref EXCEPT !.array.values[1] = <<13421773, -27>>],
        lut,
        inverse(lut)}

CloneInit ==
    /\ \E ref \in CloneLuts : heap = [id \in ObjIds |-> IF id = 1 THEN ref ELSE NoLut]
    /\ ptr = [x \in Handles |-> IF x = "a" THEN 1 ELSE 0]
    /\ last = [op |-> "none", args |-> NoArgs,
               pre |-> [id \in ObjIds |-> NoLut], prePtr |-> [x \in Handles |-> 0],
               threw |-> FALSE, what |-> "", ret |-> 0, trace |-> <<>>,
               ops |-> <<>>, domain |-> NoLut, value |-> "void"]
    /\ nops = 0
    /\ NoCallRunning

CloneBitDepths == {"UINT16", "F32"}
CloneInterpolations == {"linear", "cubic"}

\* A LUT is cloned; the original and the clones are changed.
CloneNext ==
    \/ \E x \in Handles : Clone(x)
    \/ \E x \in Handles : SetArrayValue(x, 0, FromInt(20))
    \/ \E x \in Handles, in \in CloneBitDepths : SetInputBitDepth(x, in)
    \/ \E x \in Handles, out \in CloneBitDepths : SetOutputBitDepth(x, out)
    \/ \E x \in Handles, algo \in CloneInterpolations : SetInterpolation(x, algo)
    \/ \E x \in Handles : SetInversionQuality(x, "exact")

CloneSpec == CloneInit /\ [][CloneNext]_vars

\* The calls that change the array, a bit depth, the interpolation or the
\* inversion quality of a LUT.
CloneMutators ==
    {"setArrayValue", "setInputBitDepth", "setOutputBitDepth",
     "setInterpolation", "setInversionQuality"}

\* C20: clone(X) == X right after cloning, the clone is a new object that has
\* every attribute of X and X is as it was; a later change of the array, a bit
\* depth, the interpolation or the inversion quality made through one pointer
\* changes the object it points to and no other, the original when a clone
\* is changed and the clones when the original is: no two pointers reach the
\* same LUT.
C20_CloneSharesNothing ==
    /\ last.op = "clone" =>
          /\ last.pre[last.ret] = NoLut
          /\ LutEquals(heap[last.ret], Before(last.args.x))
          /\ heap[last.ret] = Before(last.args.x)
          /\ \A id \in ObjIds \ {last.ret} : heap[id] = last.pre[id]
    /\ \A x, y \in Handles : (x # y /\ ptr[x] # 0) => ptr[x] # ptr[y]
    /\ last.op \in CloneMutators =>
          \A y \in Handles \ {last.args.x} :
              ptr[y] # 0 => heap[ptr[y]] = last.pre[ptr[y]]

\* The clone of the clone test was written to: it differs from the
\* original, which is as it was when it was cloned.
C20_Witness ==
    /\ last.op = "setArrayValue" /\ last.args.x = "b"
    /\ ptr["a"] = 1 /\ ptr["b"] = 2
    /\ heap[1].array.length = 33
    /\ last.pre[2] = last.pre[1]
    /\ heap[1] = last.pre[1]
    /\ heap[2] # heap[1]
    /\ ~LutEquals(heap[2], heap[1])

-----------------------------------------------------------------------------
(* The calls that fail *)

\* The LUTs the failing calls are made on: a new one, a finalized one, a
\* finalized one whose interpolation was then set to one validate() refuses,
\* and one of integer depths; a second LUT of integer depths is there to be
\* composed with.
FailureLuts ==
    {Lut3DOpData(2),
     finalize(Lut3DOpData(3)),
     setInterpolation(finalize(Lut3DOpData(2)), "cubic"),
     Lut3DOpDataFull("UINT8", "UINT10", EmptyMetadata, "linear", 2)}

FailureInit ==
    /\ \E A \in FailureLuts :
          heap = [id \in ObjIds |->
                    IF id = 1 THEN A
                    ELSE IF id = 2
                    THEN Lut3DOpDataFull("UINT8", "UINT10", EmptyMetadata, "linear", 2)
                    ELSE NoLut]
    /\ ptr = [x \in Handles |->
                IF x = HandleSeq[1] THEN 1 ELSE IF x = HandleSeq[2] THEN 2 ELSE 0]
    /\ last = [op |-> "none", args |-> NoArgs,
               pre |-> [id \in ObjIds |-> NoLut], prePtr |-> [x \in Handles |-> 0],
               threw |-> FALSE, what |-> "", ret |-> 0, trace |-> <<>>,
               ops |-> <<>>, domain |-> NoLut, value |-> "void"]
    /\ nops = 0
    /\ NoCallRunning

\* A vector of the size of the array and one that is a float short.
FailureVectors(array) ==
    {vec \in RedFastestVectors(array) :
        /\ vec.size \in {getNumValues(array), getNumValues(array) - 1}
        /\ vec.values[0] = FOne}

FailureResizes == {3, maxSupportedLength + 1}

FailureNext ==
    \/ \E x \in Handles, length \in FailureResizes : Resize(x, length)
    \/ \E x \in Handles :
          /\ ptr[x] # 0
          /\ \E vec \in FailureVectors(heap[ptr[x]].array) :
                SetArrayFromRedFastestOrder(x, vec, FALSE)
    \/ \E x \in Handles, y \in Handles : Compose(x, y, FZero)
    \/ \E x \in Handles : Finalize(x)

FailureSpec == FailureInit /\ [][FailureNext]_vars

\* C21: every call that fails leaves every LUT, and what every pointer is
\* bound to, exactly as it was before the call: a resize to a length above
\* 129 leaves length and values, setArrayFromRedFastestOrder with a vector of
\* the wrong size leaves the array, Compose with mismatched depths leaves A
\* (bound to the object it was bound to) and B, and a finalize() whose
\* validation fails leaves the cache ID.
C21_FailedCallsChangeNothing ==
    /\ last.threw => heap = last.pre /\ ptr = last.prePtr
    /\ last.op = "resize" => (last.threw <=> last.args.length > 129)
    /\ last.op = "setArrayFromRedFastestOrder" =>
          (last.threw <=>
              last.args.lut.size # getNumValues(Before(last.args.x).array))
    /\ last.op = "Compose" =>
          (last.threw <=>
              Before(last.args.A).outBitDepth # Before(last.args.B).inBitDepth)
    /\ last.op = "finalize" =>
          /\ last.threw <=> validate(Before(last.args.x)) # ""
          /\ last.threw =>
                heap[ptr[last.args.x]].cacheID = Before(last.args.x).cacheID

\* A finalize() that failed on a LUT that has a cache ID, which it keeps.
C21_Witness ==
    /\ last.op = "finalize" /\ last.threw
    /\ Before(last.args.x).cacheID # <<>>
    /\ heap[ptr[last.args.x]] = Before(last.args.x)

-----------------------------------------------------------------------------
(* Compose and the objects it shares with its caller *)

\* A bug: the op list is given B itself.
ComposeBInOps_Uncloned(idB) == idB

\* The object the second op of the list refers to: clonedB, which is no
\* object of the caller's (0).
ComposeBInOps(idB) == 0

\* The object the first op of the list refers to: A itself when A is
\* resampled, none when the op is a scale.
ComposeAInOps(A, B, idA) ==
    IF ComposeUsesA(A.array.length, B.array.length) THEN 0 ELSE idA

\* A bug: the result is written into the object A points to.
ComposeTarget_InPlace(h, idA) == idA

\* std::make_shared: the object A is bound to.
ComposeTarget(h, idA) == NewId(h)

\* The renderers behind EvalTransform are not part of this file.  They may
\* finalize the LUTs of the ops they are given: a LUT that validates then
\* has its cache ID written.
OpFinalize(h, id) ==
    IF id = 0 THEN h
    ELSE IF validate(h[id]) # "" THEN h
    ELSE [h EXCEPT ![id] = finalize(h[id])]

\* Compose(A, B) as in Compose(x, y, v), with what the evaluation does to the
\* LUTs of the op list: finalizes says whether it finalizes them.
ComposeEval(x, y, v, finalizes) ==
    /\ CanCall /\ ptr[x] # 0 /\ ptr[y] # 0
    /\ LET A == heap[ptr[x]]
           B == heap[ptr[y]]
           args == [A |-> x, B |-> y]
       IN IF ComposeThrows(A, B)
          THEN /\ UNCHANGED <<heap, ptr>>
               /\ last' = Call("Compose", args, Threw(ComposeWhat))
          ELSE /\ FreeIds(heap) # {}
               /\ LET id == ComposeTarget(heap, ptr[x])
                      r == ComposeResult(A, B, v)
                      p == [ptr EXCEPT ![x] = id]
                      evaluated ==
                          IF finalizes
                          THEN OpFinalize(
                                   OpFinalize(heap, ComposeAInOps(A, B, ptr[x])),
                                   ComposeBInOps(ptr[y]))
                          ELSE heap
                  IN /\ ptr' = p
                     /\ heap' = Collect([evaluated EXCEPT ![id] = r.A], p)
                     /\ last' = Call("Compose", args,
                                     [Returned(id) EXCEPT !.ops = r.ops,
                                                          !.domain = r.domain])
    /\ nops' = nops + 1 /\ UNCHANGED <<frames, mutex>>

\* The LUTs that are composed: of two edge lengths, new and finalized,
\* forward and inverse, of float and of integer depths.
ComposeFrameLuts ==
    {Lut3DOpData(2),
     finalize(Lut3DOpData(3)),
     setInversionQuality(Lut3DOpDataDir(3, "inverse"), "best"),
     Lut3DOpDataFull("F32", "UINT8", EmptyMetadata, "tetrahedral", 2),
     setInversionQuality(
         Lut3DOpDataFull("UINT8", "F32", EmptyMetadata, "linear", 5), "exact")}

\* A and B are two LUTs, and a third pointer holds the LUT A points to.
ComposeFrameInit ==
    /\ \E A \in ComposeFrameLuts, B \in ComposeFrameLuts :
          heap = [id \in ObjIds |-> IF id = 1 THEN A ELSE IF id = 2 THEN B ELSE NoLut]
    /\ ptr = [x \in Handles |-> IF x = HandleSeq[2] THEN 2 ELSE 1]
    /\ last = [op |-> "none", args |-> NoArgs,
               pre |-> [id \in ObjIds |-> NoLut], prePtr |-> [x \in Handles |-> 0],
               threw |-> FALSE, what |-> "", ret |-> 0, trace |-> <<>>,
               ops |-> <<>>, domain |-> NoLut, value |-> "void"]
    /\ nops = 0
    /\ NoCallRunning

ComposeFrameNext ==
    \/ \E x \in Handles, y \in Handles, finalizes \in BOOLEAN :
          ComposeEval(x, y, FZero, finalizes)
    \/ \E x \in Handles : SetInversionQuality(x, "best")

ComposeFrameSpec == ComposeFrameInit /\ [][ComposeFrameNext]_vars

\* The object B pointed to when Compose was called.
ComposeB == last.prePtr[last.args.B]
\* The object A pointed to when Compose was called.
ComposeA == last.prePtr[last.args.A]

\* C22: Compose(A, B), returned or failed, leaves the caller's B as it was:
\* the array and its length, the depths, the interpolation, the direction,
\* the inversion quality and the cache ID of the LUT B points to, whatever
\* the evaluation does to the LUTs of the op list, which holds a clone of B.
C22_ComposeLeavesB ==
    last.op = "Compose" =>
       /\ heap[ComposeB] # NoLut => heap[ComposeB] = last.pre[ComposeB]
       /\ last.args.B # last.args.A =>
             /\ ptr[last.args.B] = ComposeB
             /\ heap[ComposeB] = last.pre[ComposeB]
       /\ ~last.threw => last.ops[2] = Lut3DOp(last.pre[ComposeB])

\* A Compose that resampled A through a B that has no cache ID and could have
\* been finalized: B still has none.
C22_Witness ==
    /\ Composed
    /\ last.args.A # last.args.B
    /\ last.pre[ComposeA].array.length < last.pre[ComposeB].array.length
    /\ last.pre[ComposeB].cacheID = <<>>
    /\ validate(last.pre[ComposeB]) = ""
    /\ heap[ComposeB].cacheID = <<>>
    /\ heap[ComposeA] # NoLut
    /\ heap[ComposeA].cacheID # last.pre[ComposeA].cacheID


\* C30: a Compose(A, B) that returns binds A to a LUT that did not exist
\* before and writes into that LUT alone: the LUT A pointed to on entry, when
\* another pointer still holds it, has the array, the edge length, the
\* depths, the interpolation, the direction and the inversion quality it
\* had (its cache ID is left out: the op list holds this LUT itself when A
\* is resampled), and every other LUT is as it was.
C30_ComposeLeavesOldA ==
    Composed =>
       /\ last.pre[last.ret] = NoLut
       /\ last.ret # ComposeA
       /\ ptr[last.args.A] = last.ret
       /\ \A z \in Handles \ {last.args.A} : ptr[z] = last.prePtr[z]
       /\ heap[ComposeA] # NoLut =>
             [heap[ComposeA] EXCEPT !.cacheID = last.pre[ComposeA].cacheID]
                = last.pre[ComposeA]
       /\ \A id \in ObjIds \ {last.ret, ComposeA} :
             heap[id] # NoLut => heap[id] = last.pre[id]
       /\ last.pre[ComposeA].array.length < last.pre[ComposeB].array.length =>
             /\ last.ops[1] = Lut3DOp(last.pre[ComposeA])
             /\ ComposeAInOps(last.pre[ComposeA], last.pre[ComposeB], ComposeA)
                   = ComposeA

\* A was resampled through a finer B while a second pointer held the LUT A
\* pointed to: that LUT is as it was, and A points to another.
C30_Witness ==
    /\ Composed
    /\ last.pre[ComposeA].array.length < last.pre[ComposeB].array.length
    /\ \E z \in Handles \ {last.args.A} : ptr[z] = ComposeA
    /\ heap[ComposeA].array = last.pre[ComposeA].array
    /\ heap[ComposeA].invQuality = last.pre[ComposeA].invQuality
    /\ heap[last.ret].array.length = last.pre[ComposeB].array.length
    /\ ptr[last.args.A] # ComposeA

-----------------------------------------------------------------------------
(* The op list of Compose *)

\* C23: Compose builds three ops, evaluated in their order.  When A.L >= B.L
\* they are the scale of R, G and B by 1/M(A.bd_out), the forward LUT op over
\* a clone of B and the scale by M(B.bd_out), applied to A's own array; when
\* A.L < B.L they are the forward LUT op over A, the forward LUT op over a
\* clone of B and the scale by M(B.bd_out), none of them a scale by
\* 1/M(A.bd_out), applied to a new identity of edge length B.L and depths
\* (A.bd_in, F32).
C23_ComposeOpsInOrder ==
    Composed =>
        LET A == Before(last.args.A)
            B == Before(last.args.B)
            ops == last.ops
            domain == last.domain
            lutOverB == [type |-> "Lut3D", data |-> B, direction |-> "forward"]
            scaleUp == [type |-> "Scale", num |-> GetBitDepthMaxValue(B.outBitDepth),
                        den |-> 1, direction |-> "forward"]
        IN /\ Len(ops) = 3
           /\ ops[2] = lutOverB
           /\ ops[3] = scaleUp
           /\ A.array.length >= B.array.length =>
                 /\ ops[1] = [type |-> "Scale", num |-> 1,
                              den |-> GetBitDepthMaxValue(A.outBitDepth),
                              direction |-> "forward"]
                 /\ domain = A
           /\ A.array.length < B.array.length =>
                 /\ ops[1] = [type |-> "Lut3D", data |-> A, direction |-> "forward"]
                 /\ \A i \in 1..3 : ops[i].type = "Scale" => ops[i] = scaleUp
                 /\ domain.array.length = B.array.length
                 /\ domain.inBitDepth = A.inBitDepth
                 /\ domain.outBitDepth = "F32"
                 /\ isIdentity(domain)
                 /\ domain.array = newLut3DArray(B.array.length, "F32")
           /\ heap[last.ret].array.length = domain.array.length

\* A of integer output resampled through a finer B: two LUT ops, then the
\* scale by B's largest value.
C23_Witness ==
    /\ Composed
    /\ Before(last.args.A).array.length < Before(last.args.B).array.length
    /\ GetBitDepthMaxValue(Before(last.args.A).outBitDepth) # 1
    /\ last.ops[1].type = "Lut3D" /\ last.ops[2].type = "Lut3D"
    /\ last.ops[3].type = "Scale"
    /\ last.domain.outBitDepth = "F32"

\* Lut3DOpData::getConcreteInversionQuality
getConcreteInversionQuality(lut) ==
    CASE lut.invQuality \in {"exact", "best"} -> "exact"
      [] lut.invQuality \in {"fast", "default"} -> "fast"
      [] OTHER -> "fast"


\* C29: after every Compose(A, B) that returns, the new A is a forward LUT of
\* inversion quality Fast, whatever the directions and the inversion
\* qualities of the old A and of B: nothing of them is carried over.
C29_ComposedIsForwardAndFast ==
    Composed =>
       /\ heap[last.ret].direction = "forward"
       /\ heap[last.ret].invQuality = "fast"
       /\ getConcreteInversionQuality(heap[last.ret]) = "fast"

\* An inverse A of inversion quality Best composed with an inverse B: the
\* new A is forward and Fast.
C29_Witness ==
    /\ Composed
    /\ last.pre[ComposeA].direction = "inverse"
    /\ last.pre[ComposeA].invQuality = "best"
    /\ last.pre[ComposeB].direction = "inverse"
    /\ heap[last.ret].direction = "forward"
    /\ heap[last.ret].invQuality = "fast"

-----------------------------------------------------------------------------
(* isInverse on LUTs whose depths were set with and without rescaling *)

\* x->OpData::setOutputBitDepth(out): the depth is set and the array is not
\* rescaled.
OpDataSetOutputBitDepth(x, out) ==
    /\ CanCall /\ ptr[x] # 0
    /\ Mutate("OpData::setOutputBitDepth", [x |-> x, out |-> out], x,
              OpData_setOutputBitDepth(heap[ptr[x]], out))

\* The LUTs that are asked: L1 of the test (U8 -> U10, linear, values[0] =
\* 20.f) at edge lengths 2 and 3, L1 with every float 0.f, L1 with a float
\* output, and the inverse of each.
InverseCheckLuts ==
    LET L1(length) ==
            [Lut3DOpDataFull("UINT8", "UINT10", EmptyMetadata, "linear", length)
                EXCEPT !.array.values[0] = FromInt(20)]
        black == [L1(2) EXCEPT
                    !.array.values = [x \in DOMAIN @ |-> FZero]]
        float == [Lut3DOpDataFull("UINT8", "F16", EmptyMetadata, "linear", 2)
                    EXCEPT !.array.values[0] = FromInt(20)]
        forward == {L1(2), L1(3), black, float}
    IN forward \cup {inverse(lut) : lut \in forward}

\* The caller holds a forward LUT, and a second LUT that is an inverse one or
\* L1.
InverseCheckInit ==
    /\ \E A \in {lut \in InverseCheckLuts :
                    lut.direction = "forward" /\ lut.array.length = 2},
          B \in {lut \in InverseCheckLuts :
                    lut.direction = "inverse" \/ lut.outBitDepth = "UINT10"} :
          heap = [id \in ObjIds |-> IF id = 1 THEN A ELSE IF id = 2 THEN B ELSE NoLut]
    /\ ptr = [x \in Handles |->
                IF x = HandleSeq[1] THEN 1 ELSE IF x = HandleSeq[2] THEN 2 ELSE 0]
    /\ last = [op |-> "none", args |-> NoArgs,
               pre |-> [id \in ObjIds |-> NoLut], prePtr |-> [x \in Handles |-> 0],
               threw |-> FALSE, what |-> "", ret |-> 0, trace |-> <<>>,
               ops |-> <<>>, domain |-> NoLut, value |-> "void"]
    /\ nops = 0
    /\ NoCallRunning

InverseCheckBitDepths == {"UINT12", "F32"}

InverseCheckNext ==
    \/ \E x \in Handles, d \in InverseCheckBitDepths : OpDataSetOutputBitDepth(x, d)
    \/ \E x \in Handles : SetOutputBitDepth(x, "UINT12")
    \/ \E x \in Handles : SetInputBitDepth(x, "F32")
    \/ \E x \in Handles : SetInterpolation(x, "tetrahedral")
    \/ \E x \in Handles : SetInversionQuality(x, "exact")
    \/ \E x \in Handles, y \in Handles : IsInverse(x, y)

InverseCheckSpec == InverseCheckInit /\ [][InverseCheckNext]_vars

\* The LUT with the attributes that have no part in isInverse set to fixed
\* values: the interpolation, the inversion quality, the metadata, the cache
\* ID, the input depth of a forward LUT and the output depth of an inverse.
WithoutTheRest(lut) ==
    LET cleared == [lut EXCEPT !.interpolation = "linear", !.invQuality = "fast",
                               !.metadata = EmptyMetadata, !.cacheID = <<>>]
    IN IF lut.direction = "forward"
       THEN [cleared EXCEPT !.inBitDepth = "F32"]
       ELSE [cleared EXCEPT !.outBitDepth = "F32"]

\* Af.array[i] * M(Ai.bd_in)/M(Af.bd_out) == Ai.array[i] for every i, in
\* binary32, for arrays of the same number of values.
ScaledArraysMatch(Af, Ai) ==
    /\ getNumValues(Af.array) = getNumValues(Ai.array)
    /\ \A i \in DOMAIN Af.array.values :
          FMul(Af.array.values[i], scaleFactorOf(Ai.inBitDepth, Af.outBitDepth))
             = Ai.array.values[i]

\* What C25 says of every isInverse call but its last sentence on equal raw
\* arrays.
IsInverseAsComputed ==
    last.op = "isInverse" =>
       /\ ~OneOfEachDirection => last.value = FALSE
       /\ OneOfEachDirection =>
             /\ last.value = ScaledArraysMatch(ForwardOne, InverseOne)
             /\ last.value = isInverse(WithoutTheRest(Before(last.args.a)),
                                       WithoutTheRest(Before(last.args.b)))

\* Equal raw arrays under depths of different largest value.
TagsDiffer ==
    /\ OneOfEachDirection
    /\ ForwardOne.array = InverseOne.array
    /\ GetBitDepthMaxValue(ForwardOne.outBitDepth)
          # GetBitDepthMaxValue(InverseOne.inBitDepth)

-----------------------------------------------------------------------------
(* isIdentity of an inverse *)

InverseIdentityGridSizes == {2, 3, maxSupportedLength}

\* LUTs of every pair of depths are constructed, written to, inverted and
\* asked whether they are identities.
InverseIdentityNext ==
    \/ \E in \in BitDepths, out \in BitDepths, g \in InverseIdentityGridSizes :
          Live(heap) = {} /\ ConstructFull(in, out, EmptyMetadata, "linear", g)
    \/ \E x \in Handles : SetArrayValue(x, 0, FromInt(20))
    \/ \E x \in Handles : Inverse(x)
    \/ \E x \in Handles : IsIdentity(x)

InverseIdentitySpec == Init /\ [][InverseIdentityNext]_vars

\* C28 as claimed: for a LUT X of any input and output depths, if
\* X.isIdentity() holds then X.inverse().isIdentity() holds.
C28_InverseOfIdentityIsIdentity ==
    (last.op = "inverse" /\ isIdentity(Before(last.args.x))) =>
        isIdentity(heap[last.ret])

\* What the code does: the inverse of an identity X is found to be an
\* identity exactly when the largest values of X's two depths are the same,
\* the floats being those of X and the depth they are held against X's input
\* depth.
InverseOfIdentityAsComputed ==
    (last.op = "inverse" /\ isIdentity(Before(last.args.x))) =>
        (isIdentity(heap[last.ret]) <=>
            GetBitDepthMaxValue(Before(last.args.x).inBitDepth)
               = GetBitDepthMaxValue(Before(last.args.x).outBitDepth))

-----------------------------------------------------------------------------
(* The cache ID between two calls of finalize() *)

\* The LUTs at the start: new, finalized, of integer depths, and one that
\* validate() refuses.
CacheFrameLuts ==
    {Lut3DOpData(2),
     finalize(Lut3DOpData(2)),
     finalize(Lut3DOpDataFull("UINT8", "UINT10", EmptyMetadata, "linear", 3)),
     Lut3DOpDataFull("UINT8", "UINT10", EmptyMetadata, "cubic", 2)}

CacheFrameInit ==
    /\ \E lut \in CacheFrameLuts :
          heap = [id \in ObjIds |-> IF id = 1 THEN lut ELSE NoLut]
    /\ ptr = [x \in Handles |-> IF x = HandleSeq[1] THEN 1 ELSE 0]
    /\ last = [op |-> "none", args |-> NoArgs,
               pre |-> [id \in ObjIds |-> NoLut], prePtr |-> [x \in Handles |-> 0],
               threw |-> FALSE, what |-> "", ret |-> 0, trace |-> <<>>,
               ops |-> <<>>, domain |-> NoLut, value |-> "void"]
    /\ nops = 0
    /\ NoCallRunning

CacheFrameNext ==
    \/ \E x \in Handles : Finalize(x)
    \/ \E x \in Handles : SetInputBitDepth(x, "UINT16")
    \/ \E x \in Handles : SetOutputBitDepth(x, "UINT16")
    \/ \E x \in Handles, algo \in {"tetrahedral", "cubic"} : SetInterpolation(x, algo)
    \/ \E x \in Handles : SetArrayValue(x, 0, FromInt(20))
    \/ \E x \in Handles : Resize(x, 3)
    \/ \E x \in Handles : Clone(x)
    \/ \E x \in Handles : Inverse(x)

CacheFrameSpec == CacheFrameInit /\ [][CacheFrameNext]_vars

\* The fingerprint finalize() computes of a LUT.
Fingerprint(lut) == finalize(lut).cacheID

\* C27: the cache ID is written by a finalize() that succeeds and by nothing
\* else.  Such a finalize() leaves the fingerprint of the LUT as it is then;
\* setInputBitDepth, setOutputBitDepth, setInterpolation, writes to the array,
\* resizes and a finalize() that fails leave the cache ID of every LUT as it
\* was; clone() and inverse() give the new LUT the cache ID of the LUT they
\* copy.  So a cache ID that is not empty is the fingerprint taken by the
\* last finalize() that succeeded on the LUT or on the LUT it was copied
\* from, whatever the direction, the depths and the array are now.
C27_CacheIdWrittenByFinalizeOnly ==
    /\ (last.op = "finalize" /\ ~last.threw) =>
          /\ heap[last.ret].cacheID = Fingerprint(Before(last.args.x))
          /\ \A id \in ObjIds \ {last.ret} : heap[id] = last.pre[id]
    /\ last.op \in {"clone", "inverse"} =>
          /\ heap[last.ret].cacheID = Before(last.args.x).cacheID
          /\ \A id \in ObjIds \ {last.ret} : heap[id] = last.pre[id]
    /\ (last.op \notin {"clone", "inverse", "none"}
           /\ ~(last.op = "finalize" /\ ~last.threw)) =>
          \A id \in Live(heap) : heap[id].cacheID = last.pre[id].cacheID

\* The inverse of a finalized LUT: it has the cache ID of the LUT it was
\* copied from, which names the direction and the depths of that LUT and not
\* its own.
C27_Witness ==
    /\ last.op = "inverse"
    /\ heap[last.ret].cacheID # <<>>
    /\ heap[last.ret].cacheID = Before(last.args.x).cacheID
    /\ heap[last.ret].cacheID # Fingerprint(heap[last.ret])
    /\ heap[last.ret].cacheID = Fingerprint(Before(last.args.x))

-----------------------------------------------------------------------------
(* MakeFastLut3DFromInverse, one statement at a time *)

\* The frame of a call of MakeFastLut3DFromInverse: where it is, the pointer
\* and the object it was given, the style the guard keeps, the heap and the
\* pointers as they were at the call, and the locals newDomain, ops and the
\* exception that is on its way out.
MakeFastFrame(pc, x, obj, saved, pre, prePtr) ==
    [pc |-> pc, x |-> x, obj |-> obj, saved |-> saved, pre |-> pre,
     prePtr |-> prePtr, newDomain |-> NoLut, ops |-> <<>>, A |-> NoLut,
     domain |-> NoLut, what |-> ""]

\* The positions at which the guard is alive.
MakeFastGuarded == {"newDomain", "Compose", "EvalTransform", "return", "unwind"}

AllIdle == \A t \in Threads : frames[t].pc = "idle"

\* What the call leaves in the record of the last call; the heap and the
\* pointers of the record are the ones the call was made with.
MakeFastCall(f, outcome) ==
    [Call("MakeFastLut3DFromInverse", [lut |-> f.x], outcome) EXCEPT
        !.pre = f.pre, !.prePtr = f.prePtr]

\* The test of the direction, and the constructor of the guard.
MakeFastEnter(t, x) ==
    /\ CanCall /\ AllIdle /\ ptr[x] # 0
    /\ LET lut == heap[ptr[x]]
       IN IF MakeFastThrows(lut)
          THEN /\ UNCHANGED <<heap, frames>>
               /\ last' = Call("MakeFastLut3DFromInverse", [lut |-> x],
                               Threw(MakeFastWhat))
               /\ nops' = nops + 1
          ELSE /\ CanAllocate
               /\ heap' = [heap EXCEPT ![ptr[x]] = LutStyleGuardEnter(lut)]
               /\ frames' = [frames EXCEPT ![t] =
                                MakeFastFrame("newDomain", x, ptr[x],
                                              lut.invQuality, heap, ptr)]
               /\ UNCHANGED <<last, nops>>
    /\ UNCHANGED <<ptr, mutex>>

\* newDomain is made and its depths are set.
MakeFastNewDomain(t) ==
    /\ frames[t].pc = "newDomain"
    /\ frames' = [frames EXCEPT ![t].pc = "Compose",
                                ![t].newDomain = MakeFastDomain(heap[frames[t].obj])]
    /\ UNCHANGED <<heap, ptr, last, nops, mutex>>

\* Compose(newDomain, lut) up to the call of EvalTransform: the test of the
\* depths, and the op list with the clone of lut.
MakeFastCompose(t) ==
    /\ frames[t].pc = "Compose"
    /\ LET f == frames[t]
           B == heap[f.obj]
       IN IF ComposeThrows(f.newDomain, B)
          THEN frames' = [frames EXCEPT ![t].pc = "unwind",
                                        ![t].what = ComposeWhat]
          ELSE frames' = [frames EXCEPT ![t].pc = "EvalTransform",
                                        ![t].ops = ComposeOps(f.newDomain, B)]
    /\ UNCHANGED <<heap, ptr, last, nops, mutex>>

EvalTransformWhat == "exception of EvalTransform"

\* EvalTransform and the rest of Compose.  The renderers are not part of this
\* file: the evaluation returns a buffer or throws.
MakeFastEvalTransform(t, v, throws) ==
    /\ frames[t].pc = "EvalTransform"
    /\ LET f == frames[t]
           r == ComposeResult(f.newDomain, heap[f.obj], v)
       IN IF throws
          THEN frames' = [frames EXCEPT ![t].pc = "unwind",
                                        ![t].what = EvalTransformWhat]
          ELSE frames' = [frames EXCEPT ![t].pc = "return",
                                        ![t].A = r.A,
                                        ![t].domain = r.domain]
    /\ UNCHANGED <<heap, ptr, last, nops, mutex>>

MakeFastTrace == <<"guard", "newDomain", "Compose", "unguard">>

\* return newDomain: the destructor of the guard runs, and the caller's next
\* variable holds the new LUT.
MakeFastReturn(t) ==
    /\ frames[t].pc = "return"
    /\ LET f == frames[t]
           id == NewId(heap)
       IN /\ heap' = [heap EXCEPT
                        ![f.obj] = LutStyleGuardExit(heap[f.obj], f.saved),
                        ![id] = f.A]
          /\ ptr' = [ptr EXCEPT ![NewHandle(ptr)] = id]
          /\ last' = MakeFastCall(f, [Returned(id) EXCEPT
                                         !.trace = MakeFastTrace,
                                         !.ops = f.ops,
                                         !.domain = f.domain])
    /\ frames' = [frames EXCEPT ![t] = Idle]
    /\ nops' = nops + 1
    /\ UNCHANGED mutex

\* A bug: the style is put back on the normal return only.
MakeFastUnwind_NoRestore(t) ==
    /\ frames[t].pc = "unwind"
    /\ last' = MakeFastCall(frames[t], [Threw(frames[t].what) EXCEPT
                                           !.trace = MakeFastTrace])
    /\ frames' = [frames EXCEPT ![t] = Idle]
    /\ nops' = nops + 1
    /\ UNCHANGED <<heap, ptr, mutex>>

\* An exception leaves the function: the destructor of the guard runs.
MakeFastUnwind(t) ==
    /\ frames[t].pc = "unwind"
    /\ LET f == frames[t]
       IN /\ heap' = [heap EXCEPT
                        ![f.obj] = LutStyleGuardExit(heap[f.obj], f.saved)]
          /\ last' = MakeFastCall(f, [Threw(f.what) EXCEPT
                                         !.trace = MakeFastTrace])
    /\ frames' = [frames EXCEPT ![t] = Idle]
    /\ nops' = nops + 1
    /\ UNCHANGED <<ptr, mutex>>

\* The LUTs the function is called with: inverse LUTs of every inversion
\* quality, finer and coarser than GridSize, and a forward LUT.
MakeFastFrameLuts ==
    {setInversionQuality(Lut3DOpDataDir(gridSize, "inverse"), style) :
        gridSize \in {2, 65}, style \in {"fast", "exact", "best", "default"}}
    \cup {Lut3DOpData(2)}

MakeFastFrameInit ==
    /\ \E lut \in MakeFastFrameLuts :
          heap = [id \in ObjIds |-> IF id = 1 THEN lut ELSE NoLut]
    /\ ptr = [x \in Handles |-> IF x = HandleSeq[1] THEN 1 ELSE 0]
    /\ last = [op |-> "none", args |-> NoArgs,
               pre |-> [id \in ObjIds |-> NoLut], prePtr |-> [x \in Handles |-> 0],
               threw |-> FALSE, what |-> "", ret |-> 0, trace |-> <<>>,
               ops |-> <<>>, domain |-> NoLut, value |-> "void"]
    /\ nops = 0
    /\ NoCallRunning

MakeFastFrameNext ==
    \/ \E t \in Threads, x \in Handles : MakeFastEnter(t, x)
    \/ \E t \in Threads : MakeFastNewDomain(t)
    \/ \E t \in Threads : MakeFastCompose(t)
    \/ \E t \in Threads, throws \in BOOLEAN : MakeFastEvalTransform(t, FZero, throws)
    \/ \E t \in Threads : MakeFastReturn(t)
    \/ \E t \in Threads : MakeFastUnwind(t)
    \/ \E x \in Handles : AllIdle /\ SetInversionQuality(x, "best")

MakeFastFrameSpec == MakeFastFrameInit /\ [][MakeFastFrameNext]_vars

\* C24: from the constructor of the guard to its destructor, and so for the
\* whole of the call of Compose, the concrete inversion quality of the LUT
\* handed to MakeFastLut3DFromInverse is exact, and so is that of its clone in
\* the op list; when the call is over, by a return or by an exception raised in
\* Compose, the LUT has the inversion quality it had when the call was made.
C24_ExactWhileGuarded ==
    /\ \A t \in Threads :
          frames[t].pc \in MakeFastGuarded =>
             /\ getConcreteInversionQuality(heap[frames[t].obj]) = "exact"
             /\ frames[t].pc \in {"EvalTransform", "return"} =>
                   /\ frames[t].ops[2].type = "Lut3D"
                   /\ getConcreteInversionQuality(frames[t].ops[2].data) = "exact"
    /\ (last.op = "MakeFastLut3DFromInverse" /\ AllIdle) =>
          /\ heap[last.prePtr[last.args.lut]].invQuality
                = last.pre[last.prePtr[last.args.lut]].invQuality
          /\ ~last.threw =>
                getConcreteInversionQuality(last.ops[2].data) = "exact"

\* A LUT whose inversion quality is not exact, after a call that Compose left
\* by an exception.
C24_Witness ==
    /\ last.op = "MakeFastLut3DFromInverse" /\ AllIdle
    /\ last.threw /\ last.what = EvalTransformWhat
    /\ last.pre[last.prePtr[last.args.lut]].invQuality = "fast"
    /\ heap[last.prePtr[last.args.lut]].invQuality = "fast"
    /\ getConcreteInversionQuality(heap[last.prePtr[last.args.lut]]) = "fast"

-----------------------------------------------------------------------------
(* finalize() called from several threads *)

\* The frame of a call of finalize(): where it is, the pointer and the object
\* it was called on, the heap and the pointers as they were at the call, and
\* the locals digest and cacheIDStream.
FinalizeFrame(x, obj, pre, prePtr) ==
    [pc |-> "lock", x |-> x, obj |-> obj, pre |-> pre, prePtr |-> prePtr,
     digest |-> <<>>, cacheIDStream |-> <<>>]

\* The positions of the body, where the lock is held.
FinalizeBody == {"validate", "md5", "cacheIDStream", "m_cacheID"}

FinalizeCallOf(f, outcome) ==
    [Call("finalize", [x |-> f.x], outcome) EXCEPT
        !.pre = f.pre, !.prePtr = f.prePtr]

\* A thread calls finalize() on the LUT of a pointer.
FinalizeEnter(t, x) ==
    /\ CanCall /\ frames[t].pc = "idle" /\ ptr[x] # 0
    /\ frames' = [frames EXCEPT ![t] = FinalizeFrame(x, ptr[x], heap, ptr)]
    /\ nops' = nops + 1
    /\ UNCHANGED <<heap, ptr, last, mutex>>

\* A bug: the body is entered without the mutex.
FinalizeLock_NoMutex(t) ==
    /\ frames[t].pc = "lock"
    /\ frames' = [frames EXCEPT ![t].pc = "validate"]
    /\ UNCHANGED <<heap, ptr, last, nops, mutex>>

\* AutoMutex lock(m_mutex): the thread waits until the mutex is free and
\* takes it.
FinalizeLock(t) ==
    /\ frames[t].pc = "lock"
    /\ mutex[frames[t].obj] = NoThread
    /\ mutex' = [mutex EXCEPT ![frames[t].obj] = t]
    /\ frames' = [frames EXCEPT ![t].pc = "validate"]
    /\ UNCHANGED <<heap, ptr, last, nops>>

\* The destructor of the lock.
FinalizeUnlock(t) ==
    [mutex EXCEPT ![frames[t].obj] = IF @ = t THEN NoThread ELSE @]

\* validate(); its exception leaves finalize() and frees the mutex.
FinalizeValidate(t) ==
    /\ frames[t].pc = "validate"
    /\ LET what == validate(heap[frames[t].obj])
       IN IF what # ""
          THEN /\ last' = FinalizeCallOf(frames[t], Threw(what))
               /\ frames' = [frames EXCEPT ![t] = Idle]
               /\ mutex' = FinalizeUnlock(t)
          ELSE /\ frames' = [frames EXCEPT ![t].pc = "md5"]
               /\ UNCHANGED <<last, mutex>>
    /\ UNCHANGED <<heap, ptr, nops>>

\* The digest of the values of the array.
FinalizeMd5(t) ==
    /\ frames[t].pc = "md5"
    /\ frames' = [frames EXCEPT
                    ![t].pc = "cacheIDStream",
                    ![t].digest = GetPrintableHash(heap[frames[t].obj].array.values)]
    /\ UNCHANGED <<heap, ptr, last, nops, mutex>>

\* The digest and the four names are written to cacheIDStream.
FinalizeStream(t) ==
    /\ frames[t].pc = "cacheIDStream"
    /\ LET lut == heap[frames[t].obj]
       IN frames' = [frames EXCEPT
                       ![t].pc = "m_cacheID",
                       ![t].cacheIDStream =
                           <<frames[t].digest,
                             InterpolationToString(lut.interpolation),
                             TransformDirectionToString(lut.direction),
                             BitDepthToString(lut.inBitDepth),
                             BitDepthToString(lut.outBitDepth)>>]
    /\ UNCHANGED <<heap, ptr, last, nops, mutex>>

\* m_cacheID = cacheIDStream.str(), and the return, which frees the mutex.
FinalizeWrite(t) ==
    /\ frames[t].pc = "m_cacheID"
    /\ heap' = [heap EXCEPT ![frames[t].obj].cacheID = frames[t].cacheIDStream]
    /\ last' = FinalizeCallOf(frames[t],
                              [Returned(frames[t].obj) EXCEPT !.trace = <<t>>])
    /\ frames' = [frames EXCEPT ![t] = Idle]
    /\ mutex' = FinalizeUnlock(t)
    /\ UNCHANGED <<ptr, nops>>

\* The LUTs that are finalized: new, one with the cache ID of an earlier
\* state, and one that validate() refuses.
FinalizeLuts ==
    {Lut3DOpData(2),
     setOutputBitDepth(finalize(Lut3DOpData(2)), "UINT16"),
     Lut3DOpDataFull("UINT8", "UINT10", EmptyMetadata, "cubic", 2)}

\* A pointer to a LUT and a pointer to another.
FinalizeInit ==
    /\ \E lut \in FinalizeLuts :
          heap = [id \in ObjIds |-> CASE id = 1 -> lut
                                      [] id = 2 -> Lut3DOpData(3)
                                      [] OTHER -> NoLut]
    /\ ptr = [x \in Handles |-> CASE x = HandleSeq[1] -> 1
                                  [] x = HandleSeq[2] -> 2
                                  [] OTHER -> 0]
    /\ last = [op |-> "none", args |-> NoArgs,
               pre |-> [id \in ObjIds |-> NoLut], prePtr |-> [x \in Handles |-> 0],
               threw |-> FALSE, what |-> "", ret |-> 0, trace |-> <<>>,
               ops |-> <<>>, domain |-> NoLut, value |-> "void"]
    /\ nops = 0
    /\ NoCallRunning

\* A step of a thread that is in finalize().
FinalizeStep(t) ==
    \/ FinalizeLock(t)
    \/ FinalizeValidate(t)
    \/ FinalizeMd5(t)
    \/ FinalizeStream(t)
    \/ FinalizeWrite(t)

FinalizeNext ==
    \/ \E t \in Threads, x \in Handles : FinalizeEnter(t, x)
    \/ \E t \in Threads : FinalizeStep(t)

FinalizeSpec == FinalizeInit /\ [][FinalizeNext]_vars

\* A thread that can run does run, and a mutex that stays free is taken by a
\* thread that waits for it.
FinalizeFairSpec ==
    FinalizeSpec /\ \A t \in Threads : WF_vars(FinalizeStep(t))

InFinalizeBody(t) == frames[t].pc \in FinalizeBody

\* No two threads are in the body of finalize() of one LUT, a thread in the
\* body holds the mutex of its LUT, and a mutex is held by such a thread only.
FinalizeMutualExclusion ==
    /\ \A t \in Threads, u \in Threads :
          (t # u /\ InFinalizeBody(t) /\ InFinalizeBody(u)) =>
             frames[t].obj # frames[u].obj
    /\ \A t \in Threads :
          InFinalizeBody(t) => mutex[frames[t].obj] = t
    /\ \A id \in ObjIds :
          mutex[id] # NoThread =>
             (InFinalizeBody(mutex[id]) /\ frames[mutex[id]].obj = id)

\* A finalize() that returned has left the cache ID that finalize() leaves
\* when it is called alone on the LUT, and the cache ID is still that one
\* while other threads are in finalize() of the LUT.
FinalizeSingleCacheId ==
    (last.op = "finalize" /\ ~last.threw) =>
       /\ heap[last.ret] = finalize(last.pre[last.ret])
       /\ heap[last.ret].cacheID = Fingerprint(heap[last.ret])

\* C26: threads that call finalize() on one valid LUT that nothing else
\* changes run its body one at a time, under the mutex of the LUT; every call
\* comes to its end in every interleaving; and the LUT is left with the cache
\* ID that a single finalize() gives it.
C26_ConcurrentFinalize ==
    /\ [](FinalizeMutualExclusion /\ FinalizeSingleCacheId)
    /\ \A t \in Threads : (frames[t].pc # "idle") ~> (frames[t].pc = "idle")
    /\ \A x \in Handles :
          (\E t \in Threads : /\ frames[t].pc = "lock" /\ frames[t].x = x
                               /\ validate(heap[ptr[x]]) = "")
             ~> (/\ ptr[x] # 0 /\ mutex[ptr[x]] = NoThread
                 /\ heap[ptr[x]].cacheID = Fingerprint(heap[ptr[x]]))

\* A thread is about to write the cache ID of a LUT that had none when the
\* thread called finalize(), and the other thread, which was in finalize() at
\* the same time, has returned and left the cache ID.
C26_Witness ==
    \E t \in Threads, u \in Threads :
       /\ t # u
       /\ frames[t].pc = "m_cacheID"
       /\ frames[t].pre[frames[t].obj].cacheID = <<>>
       /\ last.op = "finalize" /\ ~last.threw /\ last.trace = <<u>>
       /\ last.ret = frames[t].obj
       /\ last.pre[last.ret].cacheID = <<>>
       /\ heap[last.ret].cacheID = Fingerprint(heap[last.ret])
       /\ heap[last.ret].cacheID = frames[t].cacheIDStream

=============================================================================
